---- MODULE Spec2Model ----
(***************************************************************************)
(* tfsort: the list-element sorting and token-reconstruction engine of     *)
(* internal/sorter/list_sorter.go, modelled over hclwrite token sequences. *)
(*                                                                         *)
(* A token is a record [type, bytes]: type is the hclsyntax token type     *)
(* name without the "Token" prefix, bytes is the sequence of byte values.  *)
(* Horizontal whitespace is not a token in hclwrite (it is the             *)
(* SpacesBefore field, which no function modelled here reads), and a line  *)
(* comment token carries its terminating newline in its bytes.             *)
(***************************************************************************)
EXTENDS Integers, Sequences, FiniteSets, TLC

\* ------------------------------------------------------------------------
\* Bounds
\* ------------------------------------------------------------------------

\* largest number of elements of a generated list
MaxElems == 3

\* number of consecutive list-sorting passes over the same attribute
MaxPasses == 2

\* ------------------------------------------------------------------------
\* Tokens and bytes
\* ------------------------------------------------------------------------

Tok(t, b) == [type |-> t, bytes |-> b]

TokOBrack == Tok("OBrack", <<91>>)
TokCBrack == Tok("CBrack", <<93>>)
TokOBrace == Tok("OBrace", <<123>>)
TokCBrace == Tok("CBrace", <<125>>)
TokOParen == Tok("OParen", <<40>>)
TokCParen == Tok("CParen", <<41>>)
TokComma == Tok("Comma", <<44>>)
TokNewline == Tok("Newline", <<10>>)
TokOQuote == Tok("OQuote", <<34>>)
TokCQuote == Tok("CQuote", <<34>>)
TokMinus == Tok("Minus", <<45>>)
TokStar == Tok("Star", <<42>>)
TokEqual == Tok("Equal", <<61>>)

\* "toset"
TosetBytes == <<116, 111, 115, 101, 116>>

\* "tfsort:ignore"
IgnoreBytes == <<116, 102, 115, 111, 114, 116, 58, 105, 103, 110, 111, 114, 101>>

IsSpaceByte(c) == c \in {9, 10, 11, 12, 13, 32}

RECURSIVE TrimLeft(_)
TrimLeft(b) ==
  IF Len(b) > 0 /\ IsSpaceByte(b[1]) THEN TrimLeft(Tail(b)) ELSE b

RECURSIVE TrimRight(_)
TrimRight(b) ==
  IF Len(b) > 0 /\ IsSpaceByte(b[Len(b)]) THEN TrimRight(SubSeq(b, 1, Len(b) - 1)) ELSE b

\* strings.TrimSpace
TrimSpace(b) == TrimRight(TrimLeft(b))

\* strings.HasPrefix
HasPrefix(b, p) == Len(b) >= Len(p) /\ SubSeq(b, 1, Len(p)) = p

\* strings.TrimPrefix
TrimPrefix(b, p) == IF HasPrefix(b, p) THEN SubSeq(b, Len(p) + 1, Len(b)) ELSE b

\* bytes.HasSuffix
HasSuffix(b, s) == Len(b) >= Len(s) /\ SubSeq(b, Len(b) - Len(s) + 1, Len(b)) = s

\* bytes.Compare: -1, 0 or 1 by lexicographic order of byte values
RECURSIVE BytesCompare(_, _)
BytesCompare(a, b) ==
  IF Len(a) = 0 /\ Len(b) = 0 THEN 0
  ELSE IF Len(a) = 0 THEN -1
  ELSE IF Len(b) = 0 THEN 1
  ELSE IF a[1] < b[1] THEN -1
  ELSE IF a[1] > b[1] THEN 1
  ELSE BytesCompare(Tail(a), Tail(b))

\* the bytes of a token sequence written one after another
RECURSIVE ConcatBytes(_)
ConcatBytes(toks) ==
  IF Len(toks) = 0 THEN <<>> ELSE toks[1].bytes \o ConcatBytes(Tail(toks))

IsWs(tok) == tok.type = "Newline" \/ tok.type = "Tabs"

\* ------------------------------------------------------------------------
\* Number literals
\* ------------------------------------------------------------------------

IsDigit(c) == c >= 48 /\ c <= 57

RECURSIVE AllDigits(_)
AllDigits(b) == Len(b) = 0 \/ (IsDigit(b[1]) /\ AllDigits(Tail(b)))

RECURSIVE DigitsValue(_, _)
DigitsValue(b, acc) ==
  IF Len(b) = 0 THEN acc ELSE DigitsValue(Tail(b), acc * 10 + (b[1] - 48))

DotIndex(b) ==
  IF \E i \in 1..Len(b) : b[i] = 46
  THEN CHOOSE i \in 1..Len(b) : b[i] = 46 /\ \A j \in 1..(i - 1) : b[j] # 46
  ELSE 0

\* ten to the power n
RECURSIVE Pow10(_)
Pow10(n) == IF n = 0 THEN 1 ELSE 10 * Pow10(n - 1)

\* fractional digits kept by NumberValue
FracDigits == 1

\* The JSON number grammar accepted by ctyjson.Unmarshal for a literal
\* without sign and exponent: an integer part without superfluous leading
\* zero, optionally a dot and at least one digit.
JSONNumberOK(b) ==
  LET d == DotIndex(b)
      ip == IF d = 0 THEN b ELSE SubSeq(b, 1, d - 1)
      fp == IF d = 0 THEN <<>> ELSE SubSeq(b, d + 1, Len(b))
  IN /\ Len(ip) > 0
     /\ AllDigits(ip)
     /\ (Len(ip) > 1 => ip[1] # 48)
     /\ (d # 0 => (Len(fp) > 0 /\ AllDigits(fp)))

\* The magnitude of a parsed literal, as an integer scaled by 10^FracDigits
\* (literals of the model have at most FracDigits fractional digits).
NumberValue(b) ==
  LET d == DotIndex(b)
      ip == IF d = 0 THEN b ELSE SubSeq(b, 1, d - 1)
      fp == IF d = 0 THEN <<>> ELSE SubSeq(b, d + 1, Len(b))
      fpk == IF Len(fp) >= FracDigits THEN SubSeq(fp, 1, FracDigits) ELSE fp
  IN DigitsValue(ip, 0) * Pow10(FracDigits)
       + DigitsValue(fpk, 0) * Pow10(FracDigits - Len(fpk))

\* cty.NilVal / cty.UnknownVal: the value of an element that is no number
NoValue == -1

\* ------------------------------------------------------------------------
\* Token classifier
\* ------------------------------------------------------------------------

isValidListStructure(tokens) ==
  /\ Len(tokens) >= 2
  /\ tokens[1].type = "OBrack"
  /\ tokens[Len(tokens)].type = "CBrack"

\* a check that takes every comment that starts with the directive for it
RECURSIVE checkIgnoreDirectivePrefix(_)
checkIgnoreDirectivePrefix(innerListTokens) ==
  IF Len(innerListTokens) = 0 THEN FALSE
  ELSE LET tok == innerListTokens[1] IN
    IF tok.type = "Comment"
    THEN \E k \in 1..Len(tok.bytes) :
           HasPrefix(SubSeq(tok.bytes, k, Len(tok.bytes)), IgnoreBytes)
    ELSE IF ~IsWs(tok) THEN FALSE
    ELSE checkIgnoreDirectivePrefix(Tail(innerListTokens))

\* The verdict of the first comment token that is preceded by nothing but
\* whitespace and newline tokens; FALSE when an element comes first.
RECURSIVE checkIgnoreDirective(_)
checkIgnoreDirective(innerListTokens) ==
  IF Len(innerListTokens) = 0 THEN FALSE
  ELSE LET tok == innerListTokens[1] IN
    IF tok.type = "Comment"
    THEN LET c0 == TrimSpace(tok.bytes)
             c1 == IF HasPrefix(c0, <<47, 47>>)
                   THEN TrimSpace(TrimPrefix(c0, <<47, 47>>))
                   ELSE IF HasPrefix(c0, <<35>>)
                        THEN TrimSpace(TrimPrefix(c0, <<35>>))
                        ELSE c0
         IN c1 = IgnoreBytes
    ELSE IF ~IsWs(tok) THEN FALSE
    ELSE checkIgnoreDirective(Tail(innerListTokens))

RECURSIVE SkipWsLeft(_, _)
SkipWsLeft(tokens, start) ==
  IF start <= Len(tokens) /\ IsWs(tokens[start])
  THEN SkipWsLeft(tokens, start + 1) ELSE start

RECURSIVE SkipWsRight(_, _)
SkipWsRight(tokens, end) ==
  IF end >= 1 /\ IsWs(tokens[end]) THEN SkipWsRight(tokens, end - 1) ELSE end

\* [ok, tokens]: the bracketed part of an expression that is a list literal
checkSimpleListLiteral(tokens) ==
  LET start == SkipWsLeft(tokens, 1)
      end == SkipWsRight(tokens, Len(tokens))
  IN IF end > start /\ tokens[start].type = "OBrack" /\ tokens[end].type = "CBrack"
     THEN [ok |-> TRUE, tokens |-> SubSeq(tokens, start, end)]
     ELSE [ok |-> FALSE, tokens |-> <<>>]

\* [ok, tokens]: the [...] part of an expression of the form toset([...])
checkTosetListCall(tokens) ==
  IF /\ Len(tokens) >= 5
     /\ tokens[1].type = "Ident" /\ tokens[1].bytes = TosetBytes
     /\ tokens[2].type = "OParen"
     /\ tokens[3].type = "OBrack"
     /\ tokens[Len(tokens) - 1].type = "CBrack"
     /\ tokens[Len(tokens)].type = "CParen"
  THEN [ok |-> TRUE, tokens |-> SubSeq(tokens, 3, Len(tokens) - 1)]
  ELSE [ok |-> FALSE, tokens |-> <<>>]

\* a rebuild that forgets the call around the list
buildTosetCallTokensBare(sortedListTokens) == sortedListTokens

buildTosetCallTokens(sortedListTokens) ==
  <<Tok("Ident", TosetBytes), TokOParen>> \o sortedListTokens \o <<TokCParen>>

isSpaceToken(tok) == tok.bytes = <<32>>

RECURSIVE BracketCommentCount(_)
BracketCommentCount(innerTokens) ==
  IF Len(innerTokens) = 0 THEN 0
  ELSE LET tok == innerTokens[1] IN
    IF tok.type = "Newline" THEN 0
    ELSE IF tok.type = "Comment" \/ tok.type = "Tabs" \/ isSpaceToken(tok)
         THEN 1 + BracketCommentCount(Tail(innerTokens))
         ELSE 0

RECURSIVE DropLeadingWs(_)
DropLeadingWs(tokens) ==
  IF Len(tokens) > 0 /\ IsWs(tokens[1]) THEN DropLeadingWs(Tail(tokens)) ELSE tokens

\* [bracketComments, elementTokens]
extractBracketLevelComments(innerTokens) ==
  LET i == BracketCommentCount(innerTokens)
  IN [bracketComments |-> SubSeq(innerTokens, 1, i),
      elementTokens |-> DropLeadingWs(SubSeq(innerTokens, i + 1, Len(innerTokens)))]

\* ------------------------------------------------------------------------
\* Sort key extractor
\* ------------------------------------------------------------------------

\* The scan for the first meaningful token: [isNum, val]
RECURSIVE FirstNumber(_)
FirstNumber(elementTokens) ==
  IF Len(elementTokens) = 0 THEN [isNum |-> FALSE, val |-> NoValue]
  ELSE LET token == elementTokens[1] IN
    IF token.type = "NumberLit"
    THEN IF JSONNumberOK(token.bytes)
         THEN [isNum |-> TRUE, val |-> NumberValue(token.bytes)]
         ELSE [isNum |-> FALSE, val |-> NoValue]
    ELSE IF token.type \notin {"Comment", "Newline", "Tabs", "Comma"}
         THEN [isNum |-> FALSE, val |-> NoValue]
         ELSE FirstNumber(Tail(elementTokens))

\* the results of extractPrimaryTokenBytes: key and the verdict n of the scan
KeyResult(key, n) == [key |-> key, val |-> n.val, isNum |-> n.isNum]

\* [key, val, isNum]
extractPrimaryTokenBytes(elementTokens) ==
  IF Len(elementTokens) = 0
  THEN [key |-> <<>>, val |-> NoValue, isNum |-> FALSE]
  ELSE KeyResult(ConcatBytes(elementTokens), FirstNumber(elementTokens))

\* ------------------------------------------------------------------------
\* Element segmenter
\* ------------------------------------------------------------------------

RECURSIVE LeadingCount(_)
LeadingCount(tokens) ==
  IF Len(tokens) > 0 /\ (IsWs(tokens[1]) \/ tokens[1].type = "Comment")
  THEN 1 + LeadingCount(Tail(tokens)) ELSE 0

\* rawElementTokens without the comma that closes the element
StripStructuralComma(rawElementTokens) ==
  LET lastSignificantTokenIdx == SkipWsRight(rawElementTokens, Len(rawElementTokens))
  IN IF /\ lastSignificantTokenIdx >= 1
        /\ rawElementTokens[lastSignificantTokenIdx].type = "Comma"
     THEN SubSeq(rawElementTokens, 1, lastSignificantTokenIdx - 1)
     ELSE rawElementTokens

\* elementContentTokens without the newlines and tabs they end with
FinalContentTokens(elementContentTokens) ==
  SubSeq(elementContentTokens, 1,
         SkipWsRight(elementContentTokens, Len(elementContentTokens)))

\* [elem, isEmpty]; elem is the listElement (meaningless when both the
\* content and the leading comments are empty, where the code returns nil)
NewListElement(leadingCommentsAccumulator, finalContentTokens, k) ==
  [elem |-> [LeadingComments |-> leadingCommentsAccumulator,
             Tokens |-> finalContentTokens,
             Key |-> k.key,
             CtyValue |-> k.val,
             IsNumber |-> k.isNum],
   isEmpty |-> Len(finalContentTokens) = 0]

KeyedElement(leadingCommentsAccumulator, finalContentTokens) ==
  NewListElement(leadingCommentsAccumulator, finalContentTokens,
                 extractPrimaryTokenBytes(finalContentTokens))

\* the element of elementTokensToProcess, whose first contentStartIndex
\* tokens are newlines, tabs and comments
SplitElement(elementTokensToProcess, contentStartIndex) ==
  KeyedElement(SubSeq(elementTokensToProcess, 1, contentStartIndex),
               FinalContentTokens(SubSeq(elementTokensToProcess, contentStartIndex + 1,
                                         Len(elementTokensToProcess))))

ParseStripped(elementTokensToProcess) ==
  SplitElement(elementTokensToProcess, LeadingCount(elementTokensToProcess))

parseSingleElement(rawElementTokens) == ParseStripped(StripStructuralComma(rawElementTokens))

\* the tokens a top-level comma takes along: the whitespace and comment
\* tokens that directly follow it
RECURSIVE AbsorbCount(_, _)
AbsorbCount(innerTokens, i) ==
  IF i + 1 <= Len(innerTokens)
     /\ (innerTokens[i + 1].type = "Tabs" \/ innerTokens[i + 1].type = "Comment")
  THEN 1 + AbsorbCount(innerTokens, i + 1) ELSE 0

\* a level that does not count parentheses
LevelAfterNoParen(level, tok) ==
  IF tok.type \in {"OBrace", "OBrack"} THEN level + 1
  ELSE IF tok.type \in {"CBrace", "CBrack"} THEN level - 1
  ELSE level

LevelAfter(level, tok) ==
  IF tok.type \in {"OBrace", "OBrack", "OParen"} THEN level + 1
  ELSE IF tok.type \in {"CBrace", "CBrack", "CParen"} THEN level - 1
  ELSE level

\* elements with the parsed element p, unless p is empty
AppendParsed(elements, p) == IF p.isEmpty THEN elements ELSE Append(elements, p.elem)

\* the loop of extractSimpleListElements from index i on
RECURSIVE ExtractLoop(_, _, _, _, _)
ExtractLoop(innerTokens, i, level, current, elements) ==
  IF i > Len(innerTokens) THEN elements
  ELSE LET tok == innerTokens[i]
           lv == LevelAfter(level, tok)
           cur == Append(current, tok)
       IN IF lv = 0 /\ tok.type = "Comma"
          THEN LET n == AbsorbCount(innerTokens, i)
               IN ExtractLoop(innerTokens, i + n + 1, lv, <<>>,
                    AppendParsed(elements,
                      parseSingleElement(cur \o SubSeq(innerTokens, i + 1, i + n))))
          ELSE IF i = Len(innerTokens)
               THEN AppendParsed(elements, parseSingleElement(cur))
               ELSE ExtractLoop(innerTokens, i + 1, lv, cur, elements)

\* the elements of the inner tokens of a list; the code's ok result is
\* always true, because parseSingleElement never fails
extractSimpleListElements(innerTokens) == ExtractLoop(innerTokens, 1, 0, <<>>, <<>>)

\* ------------------------------------------------------------------------
\* Comparator and stable sort
\* ------------------------------------------------------------------------

\* a comparison that knows no numbers: by byte key alone
compareListElementsByKey(elemI, elemJ) == BytesCompare(elemI.Key, elemJ.Key) = -1

\* less(elemI, elemJ)
compareListElements(elemI, elemJ) ==
  IF elemI.IsNumber /\ elemJ.IsNumber
  THEN IF elemI.CtyValue # elemJ.CtyValue
       THEN elemI.CtyValue < elemJ.CtyValue
       ELSE BytesCompare(elemI.Key, elemJ.Key) = -1
  ELSE IF elemI.IsNumber /\ ~elemJ.IsNumber THEN TRUE
  ELSE IF ~elemI.IsNumber /\ elemJ.IsNumber THEN FALSE
  ELSE BytesCompare(elemI.Key, elemJ.Key) = -1

\* an insertion that also moves x past the elements it is equal to
RECURSIVE InsertElementUnstable(_, _)
InsertElementUnstable(prefix, x) ==
  IF Len(prefix) > 0 /\ ~compareListElements(prefix[Len(prefix)], x)
  THEN Append(InsertElementUnstable(SubSeq(prefix, 1, Len(prefix) - 1), x),
              prefix[Len(prefix)])
  ELSE Append(prefix, x)

\* the inner loop of insertion sort: x moves left past every element it is
\* less than
RECURSIVE InsertElement(_, _)
InsertElement(prefix, x) ==
  IF Len(prefix) > 0 /\ compareListElements(x, prefix[Len(prefix)])
  THEN Append(InsertElement(SubSeq(prefix, 1, Len(prefix) - 1), x), prefix[Len(prefix)])
  ELSE Append(prefix, x)

\* sort.SliceStable, which is one insertion sort for fewer than 20 elements
RECURSIVE SliceStable(_)
SliceStable(elements) ==
  IF Len(elements) <= 1 THEN elements
  ELSE InsertElement(SliceStable(SubSeq(elements, 1, Len(elements) - 1)),
                     elements[Len(elements)])

\* a sort that reports a change whatever the order was
sortListElementsAlwaysChanged(elements) ==
  [elements |-> SliceStable(elements), changed |-> TRUE]

\* [elements, changed]
sortListElements(elements) ==
  LET sorted == SliceStable(elements)
  IN [elements |-> sorted,
      changed |-> \E i \in 1..Len(elements) : elements[i].Key # sorted[i].Key]

\* ------------------------------------------------------------------------
\* Token rebuilder
\* ------------------------------------------------------------------------

hasComments(elements) ==
  \E i \in 1..Len(elements) :
    \E j \in 1..Len(elements[i].Tokens) : elements[i].Tokens[j].type = "Comment"

RECURSIVE removeLeadingNewlines(_)
removeLeadingNewlines(tokens) ==
  IF Len(tokens) > 0 /\ tokens[1].type = "Newline"
  THEN removeLeadingNewlines(Tail(tokens)) ELSE tokens

\* [valueTokens, commentTokens]
separateValueAndCommentTokens(tokens) ==
  [valueTokens |-> SelectSeq(tokens, LAMBDA t : t.type # "Comment"),
   commentTokens |-> SelectSeq(tokens, LAMBDA t : t.type = "Comment")]

endsWithComma(tokens) == Len(tokens) > 0 /\ tokens[Len(tokens)].type = "Comma"

\* the tokens to append so that the list ends with a newline
ensureTrailingNewline(tokens) ==
  IF Len(tokens) = 0 THEN <<>>
  ELSE LET lastToken == tokens[Len(tokens)] IN
    IF \/ lastToken.type = "Newline"
       \/ (lastToken.type = "Comment" /\ HasSuffix(lastToken.bytes, <<10>>))
    THEN <<>>
    ELSE <<TokNewline>>

\* a rebuild that puts the inline comment before the separator comma
processElementCommentBeforeComma(elem, index, totalElements) ==
  LET s == separateValueAndCommentTokens(elem.Tokens)
  IN (IF index > 0 THEN removeLeadingNewlines(elem.LeadingComments)
      ELSE elem.LeadingComments)
       \o SelectSeq(s.valueTokens, LAMBDA t : t.type # "Comma")
       \o s.commentTokens
       \o (IF index < totalElements - 1 THEN <<TokComma>> ELSE <<>>)
       \o <<TokNewline>>

\* index counts from 0, as in the code
processElementForCommentedList(elem, index, totalElements) ==
  LET cleanedLeadingComments ==
        IF index > 0 THEN removeLeadingNewlines(elem.LeadingComments)
        ELSE elem.LeadingComments
      s == separateValueAndCommentTokens(elem.Tokens)
  IN cleanedLeadingComments
       \o s.valueTokens
       \o (IF ~endsWithComma(s.valueTokens) /\ index < totalElements - 1
           THEN <<TokComma>> ELSE <<>>)
       \o s.commentTokens
       \o (IF Len(s.commentTokens) = 0 THEN <<TokNewline>> ELSE <<>>)

RECURSIVE CommentedElements(_, _)
CommentedElements(elements, index) ==
  IF index >= Len(elements) THEN <<>>
  ELSE processElementForCommentedList(elements[index + 1], index, Len(elements))
         \o CommentedElements(elements, index + 1)

rebuildCommentedListTokens(elements, openBracket, closeBracket) ==
  LET rebuiltTokens ==
        <<openBracket>>
          \o (IF Len(elements) > 0 THEN <<TokNewline>> ELSE <<>>)
          \o CommentedElements(elements, 0)
  IN rebuiltTokens \o ensureTrailingNewline(rebuiltTokens) \o <<closeBracket>>

processElementForCommentedListWithTrailingCommas(elem, index, totalElements) ==
  LET cleanedLeadingComments ==
        IF index > 0 THEN removeLeadingNewlines(elem.LeadingComments)
        ELSE elem.LeadingComments
      s == separateValueAndCommentTokens(elem.Tokens)
  IN cleanedLeadingComments
       \o s.valueTokens
       \o (IF ~endsWithComma(s.valueTokens) THEN <<TokComma>> ELSE <<>>)
       \o s.commentTokens

isMultiLineList(elements) ==
  \E i \in 1..Len(elements) :
    LET all == elements[i].LeadingComments \o elements[i].Tokens
    IN \E j \in 1..Len(all) : all[j].type = "Newline"

RECURSIVE UncommentedElements(_, _, _)
UncommentedElements(elements, i, willBeMultiLine) ==
  IF i >= Len(elements) THEN <<>>
  ELSE LET elem == elements[i + 1]
           cleanedLeadingComments ==
             IF i = 0 /\ willBeMultiLine
             THEN removeLeadingNewlines(elem.LeadingComments)
             ELSE elem.LeadingComments
       IN cleanedLeadingComments
            \o elem.Tokens
            \o (IF i < Len(elements) - 1 THEN <<TokComma>> ELSE <<>>)
            \o UncommentedElements(elements, i + 1, willBeMultiLine)

\* a rebuild that leaves out the last element
buildInnerTokensWithoutLast(elements, willBeMultiLine) ==
  UncommentedElements(SubSeq(elements, 1, Len(elements) - 1), 0, willBeMultiLine)

buildInnerTokensForUncommentedList(elements, willBeMultiLine) ==
  UncommentedElements(elements, 0, willBeMultiLine)

HasNewline(tokens) == \E i \in 1..Len(tokens) : tokens[i].type = "Newline"

determineMultiLineStatus(newInnerTokens, originalInnerTokens) ==
  \/ HasNewline(newInnerTokens)
  \/ (Len(newInnerTokens) = 0 /\ Len(originalInnerTokens) > 0
        /\ HasNewline(originalInnerTokens))

endsWithMeaningfulComma(tokens) ==
  LET i == SkipWsRight(tokens, Len(tokens))
  IN i >= 1 /\ tokens[i].type = "Comma"

endsWithNewline(trailingTokens, innerTokens) ==
  IF Len(trailingTokens) > 0
  THEN trailingTokens[Len(trailingTokens)].type = "Newline"
  ELSE Len(innerTokens) > 0 /\ innerTokens[Len(innerTokens)].type = "Newline"

addTrailingFormatting(innerTokens) ==
  IF Len(innerTokens) = 0 THEN <<>>
  ELSE LET trailing == IF ~endsWithMeaningfulComma(innerTokens) THEN <<TokComma>> ELSE <<>>
       IN trailing \o (IF ~endsWithNewline(trailing, innerTokens) THEN <<TokNewline>> ELSE <<>>)

constructFinalTokenList(innerTokens, openBracket, closeBracket, isMultiLine) ==
  <<openBracket>>
    \o (IF isMultiLine /\ Len(innerTokens) > 0 THEN <<TokNewline>> ELSE <<>>)
    \o innerTokens
    \o (IF isMultiLine THEN addTrailingFormatting(innerTokens) ELSE <<>>)
    \o <<closeBracket>>

rebuildListTokensFromElements(sortedElements, originalInnerTokens, openingBracket, closingBracket) ==
  LET willBeMultiLine == isMultiLineList(sortedElements)
      newInnerTokens == buildInnerTokensForUncommentedList(sortedElements, willBeMultiLine)
      isMultiLine == determineMultiLineStatus(newInnerTokens, originalInnerTokens)
  IN constructFinalTokenList(newInnerTokens, openingBracket, closingBracket, isMultiLine)

StripNewlineByte(b) ==
  IF Len(b) > 0 /\ b[Len(b)] = 10 THEN SubSeq(b, 1, Len(b) - 1) ELSE b

RECURSIVE CommentBytes(_)
CommentBytes(comments) ==
  IF Len(comments) = 0 THEN <<>>
  ELSE StripNewlineByte(comments[1].bytes) \o CommentBytes(Tail(comments))

buildOpenBracketWithComments(bracketBytes, comments) ==
  IF Len(comments) > 0 THEN bracketBytes \o <<32>> \o CommentBytes(comments)
  ELSE bracketBytes

cleanElementLeadingWhitespace(elem) ==
  [elem EXCEPT !.LeadingComments = removeLeadingNewlines(elem.LeadingComments)]

RECURSIVE BracketCommentElements(_, _)
BracketCommentElements(elements, i) ==
  IF i >= Len(elements) THEN <<>>
  ELSE processElementForCommentedListWithTrailingCommas(
         cleanElementLeadingWhitespace(elements[i + 1]), i, Len(elements))
         \o <<TokNewline>>
         \o BracketCommentElements(elements, i + 1)

rebuildListWithBracketComments(elements, openBracket, closeBracket, bracketComments) ==
  LET modifiedOpenBracket ==
        Tok(openBracket.type, buildOpenBracketWithComments(openBracket.bytes, bracketComments))
      result == <<modifiedOpenBracket, TokNewline>> \o BracketCommentElements(elements, 0)
  IN result \o ensureTrailingNewline(result) \o <<closeBracket>>

\* ------------------------------------------------------------------------
\* The pipeline for one expression
\* ------------------------------------------------------------------------

\* the tokens handed to the segmenter: the inner tokens, or what follows the
\* bracket-level comments when there are any
TokensToProcess(innerTokens) ==
  LET b == extractBracketLevelComments(innerTokens)
  IN IF Len(b.bracketComments) > 0 THEN b.elementTokens ELSE innerTokens

\* the tokens as they were given, and no modification
Unchanged(tokens) == [tokens |-> tokens, modified |-> FALSE]

\* the rebuild strategy for the sorted elements
rebuildSorted(tokens, bracketComments, tokensToProcess, sortedElements) ==
  IF Len(bracketComments) > 0
  THEN rebuildListWithBracketComments(sortedElements, tokens[1], tokens[Len(tokens)],
                                      bracketComments)
  ELSE IF hasComments(sortedElements)
       THEN rebuildCommentedListTokens(sortedElements, tokens[1], tokens[Len(tokens)])
       ELSE rebuildListTokensFromElements(sortedElements, tokensToProcess,
                                          tokens[1], tokens[Len(tokens)])

\* after sortListElements: s is [elements, changed]
trySortSorted(tokens, bracketComments, tokensToProcess, s) ==
  IF ~s.changed THEN Unchanged(tokens)
  ELSE [tokens |-> rebuildSorted(tokens, bracketComments, tokensToProcess, s.elements),
        modified |-> TRUE]

\* after extractSimpleListElements
trySortElements(tokens, bracketComments, tokensToProcess, elements) ==
  IF Len(elements) <= 1 THEN Unchanged(tokens)
  ELSE trySortSorted(tokens, bracketComments, tokensToProcess, sortListElements(elements))

\* after extractBracketLevelComments
trySortProcess(tokens, bracketComments, tokensToProcess) ==
  trySortElements(tokens, bracketComments, tokensToProcess,
                  extractSimpleListElements(tokensToProcess))

\* after the structure check
trySortInner(tokens, innerTokens) ==
  IF Len(innerTokens) = 0 \/ checkIgnoreDirective(innerTokens) THEN Unchanged(tokens)
  ELSE trySortProcess(tokens, extractBracketLevelComments(innerTokens).bracketComments,
                      TokensToProcess(innerTokens))

\* [tokens, modified]
trySortSimpleListTokens(tokens) ==
  IF ~isValidListStructure(tokens) THEN Unchanged(tokens)
  ELSE trySortInner(tokens, SubSeq(tokens, 2, Len(tokens) - 1))

\* the index after the bracket that closes the one before index j, and the
\* nesting level reached (0 when the pair is complete)
RECURSIVE MatchBracket(_, _, _)
MatchBracket(result, j, level) ==
  IF j <= Len(result) /\ level > 0
  THEN MatchBracket(result, j + 1,
                    IF result[j].type = "OBrack" THEN level + 1
                    ELSE IF result[j].type = "CBrack" THEN level - 1
                    ELSE level)
  ELSE [j |-> j, level |-> level]

RECURSIVE FunctionCallLoop(_, _, _)

\* the loop after the list from index i to index j - 1 gave r
FunctionCallSplice(result, i, j, anySorted, r) ==
  IF r.modified
  THEN FunctionCallLoop(SubSeq(result, 1, i - 1) \o r.tokens \o SubSeq(result, j, Len(result)),
                        i + Len(r.tokens), TRUE)
  ELSE FunctionCallLoop(result, j, anySorted)

\* a loop that goes on inside a pair that was not rewritten
FunctionCallListRescan(result, i, anySorted, m) ==
  IF m.level # 0 THEN FunctionCallLoop(result, i + 1, anySorted)
  ELSE IF trySortSimpleListTokens(SubSeq(result, i, m.j - 1)).modified
       THEN FunctionCallSplice(result, i, m.j, anySorted,
                               trySortSimpleListTokens(SubSeq(result, i, m.j - 1)))
       ELSE FunctionCallLoop(result, i + 1, anySorted)

\* the loop at an opening bracket at index i, m the end of its pair
FunctionCallList(result, i, anySorted, m) ==
  IF m.level # 0 THEN FunctionCallLoop(result, i + 1, anySorted)
  ELSE FunctionCallSplice(result, i, m.j, anySorted,
                          trySortSimpleListTokens(SubSeq(result, i, m.j - 1)))

\* the loop of sortListsInFunctionCall from index i on
FunctionCallLoop(result, i, anySorted) ==
  IF i > Len(result) THEN [tokens |-> result, modified |-> anySorted]
  ELSE IF result[i].type # "OBrack" THEN FunctionCallLoop(result, i + 1, anySorted)
  ELSE FunctionCallList(result, i, anySorted, MatchBracket(result, i + 1, 1))

sortListsInFunctionCall(tokens) == FunctionCallLoop(tokens, 1, FALSE)

\* the toset call around the list that gave r
sortTosetCall(tokens, r) ==
  IF r.modified
  THEN [tokens |-> buildTosetCallTokens(r.tokens), modified |-> TRUE]
  ELSE Unchanged(tokens)

\* [tokens, modified]
sortListsInTokens(tokens) ==
  IF checkSimpleListLiteral(tokens).ok
  THEN trySortSimpleListTokens(checkSimpleListLiteral(tokens).tokens)
  ELSE IF checkTosetListCall(tokens).ok
       THEN sortTosetCall(tokens, trySortSimpleListTokens(checkTosetListCall(tokens).tokens))
       ELSE sortListsInFunctionCall(tokens)

\* ------------------------------------------------------------------------
\* Bodies, the body walker and the block sorter
\* ------------------------------------------------------------------------
\* A body is the sequence of its items in source order. An item is an
\* attribute (name, expr) or a block (name is its type, labels, body).
Attr(name, expr) ==
  [kind |-> "attr", name |-> name, labels |-> <<>>, expr |-> expr, body |-> <<>>]

Block(type, labels, body) ==
  [kind |-> "block", name |-> type, labels |-> labels, expr |-> <<>>, body |-> body]

Attributes(body) == SelectSeq(body, LAMBDA it : it.kind = "attr")

Blocks(body) == SelectSeq(body, LAMBDA it : it.kind = "block")

\* the attribute after one pass over its expression gave r
\* a walker that never stores the tokens of the pass
AttributeKept(attr, r) == attr

AttributeAfter(attr, r) == IF r.modified THEN [attr EXCEPT !.expr = r.tokens] ELSE attr

\* a walker that writes the attributes into the body first and the nested
\* blocks after them
RECURSIVE sortListValuesAttributesFirst(_)
sortListValuesAttributesFirst(body) ==
  [i \in 1..Len(Attributes(body)) |->
     AttributeAfter(Attributes(body)[i], sortListsInTokens(Attributes(body)[i].expr))]
    \o [i \in 1..Len(Blocks(body)) |->
          [Blocks(body)[i] EXCEPT !.body = sortListValuesAttributesFirst(Blocks(body)[i].body)]]

\* The walker: every attribute of the body is offered to sortListsInTokens
\* (by name, so the items keep their places), then every nested block's body
\* is walked.
RECURSIVE sortListValues(_)
sortListValues(body) ==
  [i \in 1..Len(body) |->
     IF body[i].kind = "attr"
     THEN AttributeAfter(body[i], sortListsInTokens(body[i].expr))
     ELSE [body[i] EXCEPT !.body = sortListValues(body[i].body)]]

\* Standard Terraform block type order
blockOrder ==
  [terraform |-> 1, provider |-> 2, variable |-> 3, locals |-> 4,
   data |-> 5, module |-> 6, resource |-> 7, output |-> 8]

\* the key of a block type that blockOrder does not list
UnknownOrder == 99

getBlockSortKey(block) ==
  IF block.name \in DOMAIN blockOrder THEN blockOrder[block.name] ELSE UnknownOrder

\* the label comparison of two resource or data blocks
lessLabels(labelsI, labelsJ) ==
  IF Len(labelsI) > 0 /\ Len(labelsJ) > 0
  THEN IF labelsI[1] # labelsJ[1]
       THEN BytesCompare(labelsI[1], labelsJ[1]) = -1
       ELSE IF Len(labelsI) > 1 /\ Len(labelsJ) > 1 /\ labelsI[2] # labelsJ[2]
            THEN BytesCompare(labelsI[2], labelsJ[2]) = -1
            ELSE FALSE
  ELSE FALSE

\* a comparison that stops at the first label
lessBlocksFirstLabel(blockI, blockJ, options) ==
  IF getBlockSortKey(blockI) # getBlockSortKey(blockJ)
  THEN getBlockSortKey(blockI) < getBlockSortKey(blockJ)
  ELSE IF options.SortTypeName /\ blockI.name \in {"resource", "data"}
            /\ Len(blockI.labels) > 0 /\ Len(blockJ.labels) > 0
       THEN BytesCompare(blockI.labels[1], blockJ.labels[1]) = -1
       ELSE FALSE

\* the less function handed to sort.SliceStable
lessBlocks(blockI, blockJ, options) ==
  IF getBlockSortKey(blockI) # getBlockSortKey(blockJ)
  THEN getBlockSortKey(blockI) < getBlockSortKey(blockJ)
  ELSE IF options.SortTypeName /\ blockI.name \in {"resource", "data"}
       THEN lessLabels(blockI.labels, blockJ.labels)
       ELSE FALSE

\* the inner loop of the insertion sort over blocks
RECURSIVE InsertBlock(_, _, _)
InsertBlock(prefix, x, options) ==
  IF Len(prefix) > 0 /\ lessBlocks(x, prefix[Len(prefix)], options)
  THEN Append(InsertBlock(SubSeq(prefix, 1, Len(prefix) - 1), x, options),
              prefix[Len(prefix)])
  ELSE Append(prefix, x)

\* sort.SliceStable over the blocks of a body
RECURSIVE SliceStableBlocks(_, _)
SliceStableBlocks(blocks, options) ==
  IF Len(blocks) <= 1 THEN blocks
  ELSE InsertBlock(SliceStableBlocks(SubSeq(blocks, 1, Len(blocks) - 1), options),
                   blocks[Len(blocks)], options)

\* the orders in which a map of n attributes can be iterated
AttributeOrders(n) == { p \in [1..n -> 1..n] : \A i, j \in 1..n : p[i] = p[j] => i = j }

\* step 1 of Sort: the attributes are copied in the order the map yields them
CopyAttributes(attrs, order) == [i \in 1..Len(attrs) |-> attrs[order[i]]]

\* Sort: the new body gets the attributes, then the sorted blocks, and its
\* lists are sorted; options.SortBlocks is not consulted
Sort(file, options, order) ==
  sortListValues(CopyAttributes(Attributes(file), order)
                   \o SliceStableBlocks(Blocks(file), options))

\* ------------------------------------------------------------------------
\* The command: inputs
\* ------------------------------------------------------------------------
\* The bytes of a file: they parse to a body, or they do not parse. A body is
\* written out again as the bytes it was parsed from.
Bytes(body) == [ok |-> TRUE, body |-> body]

Unparsable == [ok |-> FALSE, body |-> <<>>]

\* len(content) = 0
IsEmpty(content) == content.ok /\ content.body = <<>>

\* a regular file of the disk, a directory, or no entry (os.Stat fails)
RegularFile(content, readable, writable) ==
  [kind |-> "file", content |-> content, readable |-> readable, writable |-> writable]

Directory == [kind |-> "dir", content |-> Bytes(<<>>), readable |-> FALSE, writable |-> FALSE]

Missing == [kind |-> "missing", content |-> Bytes(<<>>), readable |-> FALSE, writable |-> FALSE]

\* strings.HasSuffix(name, ".tf") over the paths of the disk
TfPaths == {"a.tf", "b.tf", "mod/c.tf"}

\* the files filepath.WalkDir finds under a directory
WalkDir(dir) == IF dir = "mod" THEN <<"mod/c.tf", "mod/notes.txt">> ELSE <<>>

\* the file paths one argument stands for
ArgPaths(arg, disk, recursive) ==
  IF disk[arg].kind = "missing" THEN <<>>
  ELSE IF disk[arg].kind = "dir"
       THEN IF recursive THEN SelectSeq(WalkDir(arg), LAMBDA q : q \in TfPaths) ELSE <<>>
       ELSE IF arg \in TfPaths THEN <<arg>> ELSE <<>>

RECURSIVE FilePaths(_, _, _)
FilePaths(args, disk, recursive) ==
  IF Len(args) = 0 THEN <<>>
  ELSE FilePaths(SubSeq(args, 1, Len(args) - 1), disk, recursive)
         \o ArgPaths(args[Len(args)], disk, recursive)

\* each path once, at its first place
RECURSIVE UniquePaths(_)
UniquePaths(paths) ==
  IF Len(paths) = 0 THEN <<>>
  ELSE IF \E k \in 1..Len(paths) - 1 : paths[k] = paths[Len(paths)]
       THEN UniquePaths(SubSeq(paths, 1, Len(paths) - 1))
       ELSE Append(UniquePaths(SubSeq(paths, 1, Len(paths) - 1)), paths[Len(paths)])

\* os.ReadFile of every path; unreadable and empty files are skipped with a
\* warning
RECURSIVE ReadFiles(_, _)
ReadFiles(paths, disk) ==
  IF Len(paths) = 0 THEN <<>>
  ELSE IF disk[paths[Len(paths)]].readable /\ ~IsEmpty(disk[paths[Len(paths)]].content)
       THEN Append(ReadFiles(SubSeq(paths, 1, Len(paths) - 1), disk),
                   [Path |-> paths[Len(paths)], Content |-> disk[paths[Len(paths)]].content])
       ELSE ReadFiles(SubSeq(paths, 1, Len(paths) - 1), disk)

\* the sources read from standard input
ReadStdin(stdin) ==
  IF IsEmpty(stdin.content) THEN <<>>
  ELSE <<[Path |-> "<stdin>", Content |-> stdin.content]>>

\* [sources, err, banner]: err when reading standard input failed, banner
\* when "Reading from stdin..." was printed to standard output
processInputs(args, recursive, stdin, disk) ==
  IF Len(args) = 0 /\ stdin.pipe
  THEN [sources |-> IF stdin.broken THEN <<>> ELSE ReadStdin(stdin),
        err |-> stdin.broken, banner |-> TRUE]
  ELSE [sources |-> ReadFiles(UniquePaths(FilePaths(args, disk, recursive)), disk),
        err |-> FALSE, banner |-> FALSE]

\* parser.ParseHCL reports errors for bytes that do not parse
ParseHCL(content) == [file |-> content.body, hasErrors |-> ~content.ok]

\* ------------------------------------------------------------------------
\* Source expressions
\* ------------------------------------------------------------------------

Num(b) == <<Tok("NumberLit", b)>>
Str(b) == <<TokOQuote, Tok("QuotedLit", b), TokCQuote>>
Id(b) == <<Tok("Ident", b)>>

\* a line comment token: its bytes end with the newline that closes it
LineComment(b) == Tok("Comment", b \o <<10>>)

\* # x
CmtX == LineComment(<<35, 32, 120>>)
\* # c
CmtC == LineComment(<<35, 32, 99>>)
\* // t
CmtT == LineComment(<<47, 47, 32, 116>>)
\* # z
CmtZ == LineComment(<<35, 32, 122>>)
\* # tfsort:ignore
CmtIgnoreHash == LineComment(<<35, 32>> \o IgnoreBytes)
\* // tfsort:ignore
CmtIgnoreSlash == LineComment(<<47, 47, 32>> \o IgnoreBytes)
\* # tfsort:ignore - keep
CmtIgnoreWhy == LineComment(<<35, 32>> \o IgnoreBytes \o <<32, 45, 32, 107, 101, 101, 112>>)

\* an element as written in the source: the comment lines above it, its
\* value, and the comment behind it on its line
El(lead, value, inline) == [lead |-> lead, value |-> value, inline |-> inline]

Plain(v) == El(<<>>, v, <<>>)

\* 2.5
ValFrac == Num(<<50, 46, 53>>)
\* 10
ValTen == Num(<<49, 48>>)
\* 10.0
ValTenDot == Num(<<49, 48, 46, 48>>)
\* -5
ValNeg == <<TokMinus, Tok("NumberLit", <<53>>)>>
\* "a"
ValStrA == Str(<<97>>)
\* "b"
ValStrB == Str(<<98>>)
\* a
ValIdent == Id(<<97>>)
\* a*b
ValProduct == <<Tok("Ident", <<97>>), TokStar, Tok("Ident", <<98>>)>>
\* {k=1}
ValObject ==
  <<TokOBrace, Tok("Ident", <<107>>), TokEqual, Tok("NumberLit", <<49>>), TokCBrace>>

PlainPool ==
  { Plain(v) : v \in { ValFrac, ValTen, ValTenDot, ValNeg, ValStrA, ValStrB,
                       ValIdent, ValProduct, ValObject } }

CommentPool ==
  { Plain(ValStrA), Plain(ValStrB), Plain(ValProduct),
    El(<<CmtX>>, ValStrA, <<>>), El(<<>>, ValIdent, <<CmtC>>) }

DirectivePool ==
  { Plain(ValStrA), Plain(ValStrB), Plain(ValTen),
    El(<<>>, ValStrB, <<CmtIgnoreHash>>) }

WrapPool == { Plain(ValStrA), Plain(ValStrB), Plain(ValTen), Plain(ValFrac) }

\* [2, 1]
ValNested ==
  <<TokOBrack, Tok("NumberLit", <<50>>), TokComma, Tok("NumberLit", <<49>>), TokCBrack>>
\* f(b, a)
ValCall ==
  <<Tok("Ident", <<102>>), TokOParen, Tok("Ident", <<98>>), TokComma,
    Tok("Ident", <<97>>), TokCParen>>
\* {b = 1, a = 2}
ValMap ==
  <<TokOBrace, Tok("Ident", <<98>>), TokEqual, Tok("NumberLit", <<49>>), TokComma,
    Tok("Ident", <<97>>), TokEqual, Tok("NumberLit", <<50>>), TokCBrace>>

\* 2 * 3
ValArith == <<Tok("NumberLit", <<50>>), TokStar, Tok("NumberLit", <<51>>)>>

\* elements of several tokens, some with commas of their own
NestPool ==
  { Plain(ValStrA), Plain(ValNested), Plain(ValCall), Plain(ValMap), Plain(ValArith) }

\* what stands between the opening bracket and the first element
NoHead == [at |-> "none", comment |-> <<>>]
HeadAt(at, c) == [at |-> at, comment |-> <<c>>]

Lay(multi, trailing, head, tail) ==
  [multi |-> multi, trailing |-> trailing, head |-> head, tail |-> tail]

\* [x, y]
LaySingle == Lay(FALSE, FALSE, NoHead, <<>>)
\* one element a line, the last one with a comma
LayMulti == Lay(TRUE, TRUE, NoHead, <<>>)
\* one element a line, the last one without a comma
LayMultiBare == Lay(TRUE, FALSE, NoHead, <<>>)
\* a comment line between the last element and the closing bracket
LayTail == Lay(TRUE, TRUE, NoHead, <<CmtZ>>)
LayTailIgnore == Lay(TRUE, TRUE, NoHead, <<CmtIgnoreHash>>)
\* a comment on the line after the opening bracket
LayIgnoreNext == Lay(TRUE, TRUE, HeadAt("next", CmtIgnoreHash), <<>>)
LayIgnoreWhy == Lay(TRUE, TRUE, HeadAt("next", CmtIgnoreWhy), <<>>)
\* a comment on the line of the opening bracket
LayIgnoreSame == Lay(TRUE, FALSE, HeadAt("same", CmtIgnoreSlash), <<>>)
LayBracketComment == Lay(TRUE, TRUE, HeadAt("same", CmtX), <<>>)
\* the elements on one line, the closing bracket on the next
LayCloseLine == Lay(FALSE, FALSE, NoHead, <<TokNewline>>)

\* "tolist"
TolistBytes == <<116, 111, 108, 105, 115, 116>>

SeqsUpTo(S, n) == UNION { [1..k -> S] : k \in 0..n }

EndsLine(tokens) ==
  Len(tokens) > 0 /\ tokens[Len(tokens)].type \in {"Newline", "Comment"}

\* the tokens of the elements from the i-th on, after the tokens acc
RECURSIVE RenderElems(_, _, _, _)
RenderElems(elems, lay, i, acc) ==
  IF i > Len(elems) THEN acc
  ELSE LET e == elems[i]
           nl == IF lay.multi /\ ~EndsLine(acc) THEN <<TokNewline>> ELSE <<>>
           comma == IF i < Len(elems) \/ lay.trailing THEN <<TokComma>> ELSE <<>>
       IN RenderElems(elems, lay, i + 1,
                      acc \o nl \o e.lead \o e.value \o comma \o e.inline)

\* the tokens of the list literal as the lexer delivers them
RenderList(elems, lay) ==
  LET head == IF lay.head.at = "next" THEN <<TokNewline>> \o lay.head.comment
              ELSE lay.head.comment
      body == RenderElems(elems, lay, 1, <<TokOBrack>> \o head)
      nl == IF lay.multi /\ ~EndsLine(body) THEN <<TokNewline>> ELSE <<>>
  IN body \o nl \o lay.tail \o <<TokCBrack>>

Render(in) ==
  LET l == RenderList(in.elems, in.lay)
  IN IF in.wrap = "toset" THEN <<Tok("Ident", TosetBytes), TokOParen>> \o l \o <<TokCParen>>
     ELSE IF in.wrap = "tolist" THEN <<Tok("Ident", TolistBytes), TokOParen>> \o l \o <<TokCParen>>
     ELSE l

Family(pool, layouts, wraps) ==
  [elems : SeqsUpTo(pool, MaxElems), lay : layouts, wrap : wraps]

\* The expressions the passes start from: lists without comments, lists
\* with element comments, lists with a comment next to a bracket, lists
\* inside a call, and lists of nested lists, calls and maps.
Inputs ==
  Family(PlainPool, {LaySingle, LayMulti, LayMultiBare}, {"none"})
    \cup Family(CommentPool, {LayMulti, LayMultiBare, LayTail}, {"none"})
    \cup Family(DirectivePool,
                {LayMulti, LayIgnoreNext, LayIgnoreSame, LayIgnoreWhy,
                 LayBracketComment, LayTailIgnore}, {"none"})
    \cup Family(WrapPool, {LaySingle, LayMulti}, {"toset", "tolist"})
    \cup Family(WrapPool, {LayCloseLine}, {"none"})
    \cup Family(NestPool, {LaySingle, LayMulti}, {"none"})

\* ------------------------------------------------------------------------
\* Expressions that are more than one list
\* ------------------------------------------------------------------------
MaxCallElems == 2

\* "concat"
ConcatName == <<99, 111, 110, 99, 97, 116>>

\* the lists that stand inside the expressions
ExprLists ==
  { RenderList(es, lay) :
      es \in SeqsUpTo({Plain(ValStrA), Plain(ValStrB), Plain(ValNested)}, MaxCallElems),
      lay \in {LaySingle, LayMulti, LayMultiBare} }

\* concat(l1, l2)
ConcatCall(l1, l2) ==
  <<Tok("Ident", ConcatName), TokOParen>> \o l1 \o <<TokComma>> \o l2 \o <<TokCParen>>

\* l[0]
IndexZero(l) == l \o <<TokOBrack, Tok("NumberLit", <<48>>), TokCBrack>>

\* c ? l1 : l2
Conditional(l1, l2) ==
  <<Tok("Ident", <<99>>), Tok("Question", <<63>>)>> \o l1 \o <<Tok("Colon", <<58>>)>> \o l2

\* [for k, v in m : v]
ForExpr(k, v) ==
  <<TokOBrack, Tok("Ident", <<102, 111, 114>>), Tok("Ident", k), TokComma, Tok("Ident", v),
    Tok("Ident", <<105, 110>>), Tok("Ident", <<109>>), Tok("Colon", <<58>>),
    Tok("Ident", v), TokCBrack>>

\* The expressions of the second family of passes: calls with two list
\* arguments, a list with an index, a conditional, for expressions, and
\* expressions without a list.
Expressions ==
  { ConcatCall(l1, l2) : l1 \in ExprLists, l2 \in ExprLists }
    \cup { IndexZero(l) : l \in ExprLists }
    \cup { Conditional(l, RenderList(<<Plain(ValStrB), Plain(ValStrA)>>, LaySingle)) : l \in ExprLists }
    \cup { ForExpr(<<107>>, <<118>>), ForExpr(<<105>>, <<97, 122>>) }
    \cup { IndexZero(ValIdent), ValCall, ValMap, ValArith, ValIdent }

\* ------------------------------------------------------------------------
\* Source files
\* ------------------------------------------------------------------------
MaxBlocks == 3

LblA == <<97>>
LblB == <<98>>

\* ["b", "a"]
ListBA == RenderList(<<Plain(ValStrB), Plain(ValStrA)>>, LaySingle)
\* ["a", "b"]
ListAB == RenderList(<<Plain(ValStrA), Plain(ValStrB)>>, LaySingle)
\* { b = 1, a = 2 }
ExprMap ==
  <<TokOBrace, Tok("Ident", LblB), TokEqual, Tok("NumberLit", <<49>>), TokComma,
    Tok("Ident", LblA), TokEqual, Tok("NumberLit", <<50>>), TokCBrace>>
\* { b = ["b", "a"] }
ExprMapList == <<TokOBrace, Tok("Ident", LblB), TokEqual>> \o ListBA \o <<TokCBrace>>

\* a list with an inline comment on its last line: [ a*b, / a # c ]
ListCommented ==
  RenderList(<<Plain(ValProduct), El(<<>>, ValIdent, <<CmtC>>)>>, LayMultiBare)

\* the items of block bodies
BodyPool ==
  { Attr("zones", ListBA), Attr("ports", ListAB), Attr("name", ValStrA),
    Attr("tags", ExprMap), Attr("config", ExprMapList), Attr("rules", ListCommented),
    Block("lifecycle", <<>>, <<Attr("ignore_changes", ListBA), Attr("prevent", ValIdent)>>) }

\* no attribute name twice in one body
DistinctNames(body) ==
  \A i, j \in 1..Len(body) :
    (body[i].kind = "attr" /\ body[j].kind = "attr" /\ body[i].name = body[j].name) => i = j

Bodies == { b \in SeqsUpTo(BodyPool, 2) : DistinctNames(b) }

\* top-level items: every block type of the standard order, two types outside
\* it, resource and data blocks with their two labels, and two attributes
TopPool ==
  { Block("terraform", <<>>, <<>>), Block("provider", <<LblA>>, <<>>),
    Block("variable", <<LblB>>, <<>>), Block("variable", <<LblA>>, <<>>),
    Block("locals", <<>>, <<>>),
    Block("data", <<LblB, LblA>>, <<>>), Block("data", <<LblA, LblB>>, <<>>),
    Block("module", <<LblA>>, <<>>),
    Block("resource", <<LblB, LblA>>, <<>>), Block("resource", <<LblA, LblB>>, <<>>),
    Block("resource", <<LblA, LblA>>, <<Attr("name", ValStrA)>>),
    Block("resource", <<LblA, LblA>>, <<Attr("name", ValStrB)>>),
    Block("output", <<LblA>>, <<>>), Block("moved", <<>>, <<>>),
    Block("import", <<>>, <<>>),
    Attr("region", ValStrA), Attr("zones", ListBA) }

\* files of top-level items, and files of one block with a body
Files ==
  { f \in SeqsUpTo(TopPool, MaxBlocks) : DistinctNames(f) }
    \cup { <<Block("resource", <<LblA, LblB>>, b)>> : b \in Bodies }

\* the options a caller can pass
SortOptions == [SortBlocks : BOOLEAN, SortTypeName : BOOLEAN, SortList : BOOLEAN]

NoOptions == [SortBlocks |-> FALSE, SortTypeName |-> FALSE, SortList |-> FALSE]

\* ------------------------------------------------------------------------
\* The command: arguments, flags and disks
\* ------------------------------------------------------------------------
MaxArgs == 2

Paths == {"a.tf", "b.tf", "notes.txt", "mod", "mod/c.tf", "mod/notes.txt"}

\* an argument that looks like a flag
FlagLike == {"-i"}

\* terraform {} before provider "a" {}: Sort leaves it as it is
SortedBytes == Bytes(<<Block("terraform", <<>>, <<>>), Block("provider", <<LblA>>, <<>>)>>)
\* provider "a" {} before terraform {}
UnsortedBytes == Bytes(<<Block("provider", <<LblA>>, <<>>), Block("terraform", <<>>, <<>>)>>)
\* a resource with the list ["b", "a"]
UnsortedListBytes == Bytes(<<Block("resource", <<LblA, LblB>>, <<Attr("zones", ListBA)>>)>>)

Contents == {SortedBytes, UnsortedBytes, UnsortedListBytes, Unparsable, Bytes(<<>>)}

\* a.tf is any file or no file; b.tf is a file that can be read
Disks ==
  { [q \in Paths |->
       IF q = "a.tf" THEN a
       ELSE IF q = "b.tf" THEN b
       ELSE IF q = "mod" THEN Directory
       ELSE IF q = "mod/c.tf" THEN RegularFile(UnsortedBytes, TRUE, TRUE)
       ELSE RegularFile(SortedBytes, TRUE, TRUE)] :
     a \in {Missing} \cup { RegularFile(c, r, w) : c \in Contents, r \in BOOLEAN, w \in BOOLEAN },
     b \in { RegularFile(c, TRUE, TRUE) : c \in {SortedBytes, UnsortedBytes, Unparsable} } }

Flags ==
  [recursive : BOOLEAN, inPlace : BOOLEAN, dryRun : BOOLEAN,
   sortBlocks : BOOLEAN, sortTypeName : BOOLEAN]

NoFlags ==
  [recursive |-> FALSE, inPlace |-> FALSE, dryRun |-> FALSE,
   sortBlocks |-> TRUE, sortTypeName |-> TRUE]

\* standard input is a terminal, or a pipe that yields bytes or fails
Terminal == [pipe |-> FALSE, broken |-> FALSE, content |-> Bytes(<<>>)]

Pipes ==
  { [pipe |-> TRUE, broken |-> FALSE, content |-> c] : c \in Contents }
    \cup { [pipe |-> TRUE, broken |-> TRUE, content |-> Bytes(<<>>)] }

\* ------------------------------------------------------------------------
\* State machine: one attribute of a body, sorted MaxPasses times
\* ------------------------------------------------------------------------

VARIABLES
  input,      \* the attribute's expression as written in the source
  tokens,     \* the attribute's stored expression tokens
  prev,       \* the stored tokens before the latest pass
  modified,   \* wasModified of the latest pass
  passes,     \* number of passes made
  file,       \* the body of the parsed file handed to Sort
  options,    \* the SortOptions handed to Sort
  sorted,     \* the body of the file Sort returned
  isSorted,   \* Sort has returned
  args,       \* the positional arguments of the command
  flags,      \* the flags of the command
  stdin,      \* standard input: a pipe or not, and the bytes it yields
  disk,       \* the entry of every path
  stdout,     \* standard output: writable or not, and what was written
  writes,     \* the paths os.WriteFile has written, in order
  sources,    \* the input sources processInputs returned
  idx,        \* the place of the loop over the sources
  hasErrors,
  changedInDryRun,
  exitCode,   \* the exit status, once pc is "done"
  pc          \* "start", "loop" or "done"

listVars == <<input, tokens, prev, modified, passes>>

fileVars == <<file, options, sorted, isSorted>>

envVars == <<args, flags, stdin>>

cmdVars == <<envVars, disk, stdout, writes, sources, idx, hasErrors, changedInDryRun, exitCode, pc>>

vars == <<listVars, fileVars, cmdVars>>

\* no list expression is being sorted
NoList ==
  /\ input = [elems |-> <<>>, lay |-> LaySingle, wrap |-> "none"]
  /\ tokens = <<>>
  /\ prev = <<>>
  /\ modified = FALSE
  /\ passes = 0

\* no file is being sorted
NoFile ==
  /\ file = <<>>
  /\ options = NoOptions
  /\ sorted = <<>>
  /\ isSorted = FALSE

\* no command is running
NoCommand ==
  /\ args = <<>>
  /\ flags = NoFlags
  /\ stdin = Terminal
  /\ disk = [q \in Paths |-> Missing]
  /\ stdout = [ok |-> TRUE, banner |-> FALSE, written |-> <<>>]
  /\ writes = <<>>
  /\ sources = <<>>
  /\ idx = 0
  /\ hasErrors = FALSE
  /\ changedInDryRun = FALSE
  /\ exitCode = 0
  /\ pc = "done"

Init ==
  /\ input \in Inputs
  /\ tokens = Render(input)
  /\ prev = tokens
  /\ modified = FALSE
  /\ passes = 0
  /\ NoFile
  /\ NoCommand

\* SortListValuesInBody on a body whose one attribute holds tokens
\* the attribute is stored again only when the pass modified its tokens
SetAttributeRaw(r) ==
  /\ modified' = r.modified
  /\ tokens' = IF r.modified THEN r.tokens ELSE tokens

SortListValuesInBody ==
  /\ passes < MaxPasses
  /\ SetAttributeRaw(sortListsInTokens(tokens))
  /\ prev' = tokens
  /\ passes' = passes + 1
  /\ UNCHANGED <<input, fileVars, cmdVars>>

Next == SortListValuesInBody

Spec == Init /\ [][Next]_vars

\* ------------------------------------------------------------------------
\* State machine: passes over an expression that is more than one list
\* ------------------------------------------------------------------------
InitExpr ==
  /\ input = [elems |-> <<>>, lay |-> LaySingle, wrap |-> "none"]
  /\ tokens \in Expressions
  /\ prev = tokens
  /\ modified = FALSE
  /\ passes = 0
  /\ NoFile
  /\ NoCommand

SpecExpr == InitExpr /\ [][Next]_vars

\* ------------------------------------------------------------------------
\* State machine: one file, sorted by Sort
\* ------------------------------------------------------------------------
InitSort ==
  /\ file \in Files
  /\ options \in SortOptions
  /\ sorted = file
  /\ isSorted = FALSE
  /\ NoList
  /\ NoCommand

\* Sort(file, options); the order of the attribute map is any order
SortFile ==
  /\ ~isSorted
  /\ \E order \in AttributeOrders(Len(Attributes(file))) :
       sorted' = Sort(file, options, order)
  /\ isSorted' = TRUE
  /\ UNCHANGED <<file, options, listVars, cmdVars>>

NextSort == SortFile

SpecSort == InitSort /\ [][NextSort]_vars

\* ------------------------------------------------------------------------
\* State machine: one run of the command
\* ------------------------------------------------------------------------
InitCmd ==
  /\ \/ /\ args \in SeqsUpTo({"a.tf", "b.tf", "notes.txt", "mod"} \cup FlagLike, MaxArgs)
        /\ args # <<>>
        /\ stdin = Terminal
        /\ disk \in Disks
     \/ /\ args = <<>>
        /\ stdin \in Pipes \cup {Terminal}
        /\ disk \in { d \in Disks : d["a.tf"] = Missing }
  /\ flags \in Flags
  /\ stdout \in { [ok |-> o, banner |-> FALSE, written |-> <<>>] : o \in BOOLEAN }
  /\ writes = <<>>
  /\ sources = <<>>
  /\ idx = 0
  /\ hasErrors = FALSE
  /\ changedInDryRun = FALSE
  /\ exitCode = 0
  /\ pc = "start"
  /\ NoList
  /\ NoFile

\* the command returns with an exit status
Return(code) ==
  /\ exitCode' = code
  /\ pc' = "done"

\* TfsortAction after processInputs returned r
AfterInputs(r) ==
  /\ stdout' = [stdout EXCEPT !.banner = r.banner /\ stdout.ok]
  /\ IF r.err THEN Return(1) /\ UNCHANGED <<sources, idx>>
     ELSE IF Len(r.sources) = 0 THEN Return(0) /\ UNCHANGED <<sources, idx>>
     ELSE sources' = r.sources /\ idx' = 1 /\ pc' = "loop" /\ UNCHANGED exitCode

\* TfsortAction up to the loop over the sources
Start ==
  /\ pc = "start"
  /\ IF \E k \in 1..Len(args) : args[k] \in FlagLike
     THEN Return(1) /\ UNCHANGED <<stdout, sources, idx>>
     ELSE AfterInputs(processInputs(args, flags.recursive, stdin, disk))
  /\ UNCHANGED <<envVars, disk, writes, hasErrors, changedInDryRun, listVars, fileVars>>

\* the source could not be parsed
ParseFailed ==
  /\ hasErrors' = TRUE
  /\ UNCHANGED <<changedInDryRun, stdout, disk, writes>>

\* os.Stdout.Write(sortedBytes)
WriteStdout(sortedBytes) ==
  /\ stdout' = IF stdout.ok THEN [stdout EXCEPT !.written = Append(@, sortedBytes)] ELSE stdout
  /\ hasErrors' = (hasErrors \/ ~stdout.ok)
  /\ UNCHANGED <<changedInDryRun, disk, writes>>

\* os.WriteFile(path, sortedBytes, 0644)
WriteFile(path, sortedBytes) ==
  /\ disk' = IF disk[path].writable THEN [disk EXCEPT ![path].content = sortedBytes] ELSE disk
  /\ writes' = IF disk[path].writable THEN Append(writes, path) ELSE writes
  /\ hasErrors' = (hasErrors \/ ~disk[path].writable)
  /\ UNCHANGED <<changedInDryRun, stdout>>

\* a loop body whose dry run remembers only the latest source
EmitDryRunLatest(source, sortedBytes) ==
  IF flags.dryRun
  THEN /\ changedInDryRun' = (sortedBytes # source.Content)
       /\ UNCHANGED <<hasErrors, stdout, disk, writes>>
  ELSE IF flags.inPlace /\ source.Path # "<stdin>"
       THEN IF sortedBytes # source.Content
            THEN WriteFile(source.Path, sortedBytes)
            ELSE UNCHANGED <<hasErrors, changedInDryRun, stdout, disk, writes>>
       ELSE WriteStdout(sortedBytes)

\* a loop body that writes every file in place, changed or not
EmitInPlaceAlways(source, sortedBytes) ==
  IF flags.dryRun
  THEN /\ changedInDryRun' = (changedInDryRun \/ sortedBytes # source.Content)
       /\ UNCHANGED <<hasErrors, stdout, disk, writes>>
  ELSE IF flags.inPlace /\ source.Path # "<stdin>"
       THEN WriteFile(source.Path, sortedBytes)
       ELSE WriteStdout(sortedBytes)

\* the body of the loop for a source that Sort turned into sortedBytes
Emit(source, sortedBytes) ==
  IF flags.dryRun
  THEN /\ changedInDryRun' = (changedInDryRun \/ sortedBytes # source.Content)
       /\ UNCHANGED <<hasErrors, stdout, disk, writes>>
  ELSE IF flags.inPlace /\ source.Path # "<stdin>"
       THEN IF sortedBytes # source.Content
            THEN WriteFile(source.Path, sortedBytes)
            ELSE UNCHANGED <<hasErrors, changedInDryRun, stdout, disk, writes>>
       ELSE WriteStdout(sortedBytes)

\* the source parsed to hclFile
SortSource(source, hclFile) ==
  \E order \in AttributeOrders(Len(Attributes(hclFile))) :
    Emit(source,
         Bytes(Sort(hclFile,
                    [SortBlocks |-> flags.sortBlocks, SortTypeName |-> flags.sortTypeName],
                    order)))

\* one round of the loop over the sources
ProcessSource ==
  /\ pc = "loop"
  /\ idx <= Len(sources)
  /\ IF ParseHCL(sources[idx].Content).hasErrors
     THEN ParseFailed
     ELSE SortSource(sources[idx], ParseHCL(sources[idx].Content).file)
  /\ idx' = idx + 1
  /\ UNCHANGED <<envVars, sources, exitCode, pc, listVars, fileVars>>

\* TfsortAction after the loop
Finish ==
  /\ pc = "loop"
  /\ idx > Len(sources)
  /\ Return(IF hasErrors THEN 2 ELSE IF flags.dryRun /\ changedInDryRun THEN 1 ELSE 0)
  /\ UNCHANGED <<envVars, disk, stdout, writes, sources, idx, hasErrors, changedInDryRun,
                 listVars, fileVars>>

NextCmd == Start \/ ProcessSource \/ Finish

SpecCmd == InitCmd /\ [][NextCmd]_vars

\* ------------------------------------------------------------------------
\* Views of the state used by the properties
\* ------------------------------------------------------------------------

\* the expression as written in the source
Source == Render(input)

\* the bracketed list of an expression: the expression itself, or the
\* argument of the call around it
ListPart(toks) ==
  IF toks[1].type = "OBrack" THEN toks ELSE SubSeq(toks, 3, Len(toks) - 1)

InnerOf(list) == SubSeq(list, 2, Len(list) - 1)

\* the elements the segmenter finds in a bracketed list
Segmented(list) == extractSimpleListElements(TokensToProcess(InnerOf(list)))

\* ------------------------------------------------------------------------
\* Properties
\* ------------------------------------------------------------------------

\* C1: list sorting is idempotent: a pass over the output of an earlier pass
\* reports no modification and leaves the tokens as they are.
C1_Idempotent == passes >= 2 => (~modified /\ tokens = prev)

\* the elements of the list of the latest pass in the order the stable sort
\* gave them, with the keys they were sorted by
SortedElements == sortListElements(Segmented(ListPart(prev))).elements

\* the value of an element without its comments and its separator comma
ValueTokens(e) ==
  LET v == SelectSeq(e.Tokens, LAMBDA t : t.type # "Comment")
  IN IF Len(v) > 0 /\ v[Len(v)].type = "Comma" THEN SubSeq(v, 1, Len(v) - 1) ELSE v

ValuesOf(elements) == [i \in 1..Len(elements) |-> ValueTokens(elements[i])]

\* the element values of the stored list, in their order
StoredValues == ValuesOf(Segmented(ListPart(tokens)))

\* the declared order: numbers first and by magnitude, then by byte key
DeclaredOrder(e1, e2) ==
  IF e1.IsNumber /\ e2.IsNumber
  THEN \/ e1.CtyValue < e2.CtyValue
       \/ (e1.CtyValue = e2.CtyValue /\ BytesCompare(e1.Key, e2.Key) <= 0)
  ELSE IF e1.IsNumber THEN TRUE
  ELSE IF e2.IsNumber THEN FALSE
  ELSE BytesCompare(e1.Key, e2.Key) <= 0

\* number, quoted string, identifier, object literal
KindRank(e) ==
  IF e.IsNumber THEN 0
  ELSE IF e.Tokens[1].type = "OQuote" THEN 1
  ELSE IF e.Tokens[1].type = "Ident" THEN 2
  ELSE IF e.Tokens[1].type = "OBrace" THEN 3
  ELSE 4

Ranked(e) == KindRank(e) < 4

\* C2: after a list is sorted its elements are in the declared order: every
\* number before every other element, numbers ascending by magnitude with
\* ties broken by byte key, the other elements ascending by the bytes of
\* their tokens, so that quoted strings come before identifiers and those
\* before object literals; and the rebuilt list holds the values in that order.
C2_SortedOrder ==
  (passes >= 1 /\ modified) =>
    LET S == SortedElements IN
      /\ \A i, j \in 1..Len(S) : i < j => DeclaredOrder(S[i], S[j])
      /\ \A i, j \in 1..Len(S) :
           (i < j /\ Ranked(S[i]) /\ Ranked(S[j])) => KindRank(S[i]) <= KindRank(S[j])
      /\ StoredValues = ValuesOf(S)

\* a rewritten list that mixes a number, a string and an object literal
C2_Witness ==
  /\ passes = 1 /\ modified
  /\ LET S == SortedElements IN
       /\ \E i \in 1..Len(S) : S[i].IsNumber
       /\ \E i \in 1..Len(S) : KindRank(S[i]) = 1
       /\ \E i \in 1..Len(S) : KindRank(S[i]) = 3

\* the signed magnitude of a number literal as written
SignedValue(v) ==
  IF v[1].type = "Minus" THEN 0 - NumberValue(v[2].bytes) ELSE NumberValue(v[1].bytes)

IsNumberLiteral(v) ==
  \/ (Len(v) = 1 /\ v[1].type = "NumberLit")
  \/ (Len(v) = 2 /\ v[1].type = "Minus" /\ v[2].type = "NumberLit")

AllNumberLiterals ==
  /\ Len(input.elems) >= 2
  /\ input.lay.head.at = "none"
  /\ \A i \in 1..Len(input.elems) :
       /\ IsNumberLiteral(input.elems[i].value)
       /\ input.elems[i].lead = <<>> /\ input.elems[i].inline = <<>>

\* C3: a list of number literals, integer or fractional, with or without a
\* leading minus sign, is in ascending numeric order after the pass.
C3_NumericAscending ==
  (passes >= 1 /\ AllNumberLiterals) =>
    \A i, j \in 1..Len(StoredValues) :
      i < j => SignedValue(StoredValues[i]) <= SignedValue(StoredValues[j])

\* the comment tokens among some tokens
CommentsOf(toks) == SelectSeq(toks, LAMBDA t : t.type = "Comment")

\* what an element is made of: its value and its inline comments
Body(e) == [value |-> ValueTokens(e), inline |-> CommentsOf(e.Tokens)]

\* an element as the reader sees it: its leading comments and its body
Shape(e) == [lead |-> CommentsOf(e.LeadingComments), body |-> Body(e)]

ShapesOf(elements) == [i \in 1..Len(elements) |-> Shape(elements[i])]

\* the elements of the list before and after the latest pass
ElementsBefore == Segmented(ListPart(prev))
ElementsAfter == Segmented(ListPart(tokens))

\* equal under the comparator: neither is less than the other
CompareEqual(e1, e2) == e1.IsNumber = e2.IsNumber /\ e1.Key = e2.Key

\* C4: list sorting is stable: elements that compare equal (same class, same
\* key) stand in the output in the relative order they had in the input, each
\* with its own leading comments.
C4_Stable ==
  passes >= 1 =>
    LET E == ElementsBefore
        O == ElementsAfter
    IN \A i, j \in 1..Len(E) :
         (i < j /\ CompareEqual(E[i], E[j])) =>
           SelectSeq(ShapesOf(O), LAMBDA s : s.body = Body(E[i]))
             = SelectSeq(ShapesOf(E), LAMBDA s : s.body = Body(E[i]))

\* a rewritten list with two equal elements that differ in their leading
\* comments, the first of which has left its place
C4_Witness ==
  /\ passes = 1 /\ modified
  /\ LET E == ElementsBefore
         O == ElementsAfter
     IN \E i, j \in 1..Len(E) :
          /\ i < j /\ CompareEqual(E[i], E[j])
          /\ Shape(E[i]).lead # Shape(E[j]).lead
          /\ Len(O) = Len(E) /\ Shape(O[i]) # Shape(E[i])

\* the first token of some tokens that is neither whitespace nor a newline
RECURSIVE FirstContentToken(_)
FirstContentToken(toks) ==
  IF Len(toks) = 0 THEN Tok("EOF", <<>>)
  ELSE IF toks[1].type \in {"Newline", "Tabs"} THEN FirstContentToken(Tail(toks))
  ELSE toks[1]

\* the text of a comment without its marker and the space around it
CommentText(b) ==
  LET t == TrimSpace(b)
  IN IF Len(t) >= 2 /\ t[1] = 47 /\ t[2] = 47 THEN TrimSpace(SubSeq(t, 3, Len(t)))
     ELSE IF Len(t) >= 1 /\ t[1] = 35 THEN TrimSpace(SubSeq(t, 2, Len(t)))
     ELSE t

\* the list opens with a comment that says tfsort:ignore and nothing else
HasIgnoreDirective(list) ==
  LET c == FirstContentToken(InnerOf(list))
  IN c.type = "Comment" /\ CommentText(c.bytes) = IgnoreBytes

\* the list opens with a comment that says tfsort:ignore and then more
HasIgnoreWithText(list) ==
  LET c == FirstContentToken(InnerOf(list))
  IN /\ c.type = "Comment"
     /\ HasPrefix(CommentText(c.bytes), IgnoreBytes)
     /\ Len(CommentText(c.bytes)) > Len(IgnoreBytes)

\* the stable sort would move an element of the list
OutOfOrder == sortListElements(ElementsBefore).changed

C6_IgnoreWithText ==
  (passes >= 1 /\ HasIgnoreWithText(ListPart(prev))) =>
    ValuesOf(ElementsAfter) = ValuesOf(ElementsBefore)

\* some tokens without the whitespace and newline tokens they start with
RECURSIVE SkipBlank(_)
SkipBlank(toks) ==
  IF Len(toks) > 0 /\ toks[1].type \in {"Newline", "Tabs"} THEN SkipBlank(Tail(toks))
  ELSE toks

\* somewhere in toks the comment stands directly before the value
DirectlyPrecedes(toks, comment, value) ==
  \E p \in 1..Len(toks) :
    /\ toks[p] = comment
    /\ LET rest == SkipBlank(SubSeq(toks, p + 1, Len(toks)))
       IN Len(rest) >= Len(value) /\ SubSeq(rest, 1, Len(value)) = value

\* C7: leading comments move with their own element: a comment that stands
\* directly before an element's value in the source stands directly before
\* the same value after the pass, also when the element before it has an
\* inline comment.
C7_LeadingCommentsStay ==
  passes >= 1 =>
    \A i \in 1..Len(input.elems) :
      input.elems[i].lead # <<>> =>
        DirectlyPrecedes(tokens, input.elems[i].lead[1], input.elems[i].value)

\* how often the bytes sub occur in the bytes b
Occurrences(sub, b) ==
  Cardinality({ k \in 1..(Len(b) - Len(sub) + 1) : SubSeq(b, k, k + Len(sub) - 1) = sub })

\* the text of the comments between the brackets of a list
CommentTexts(list) ==
  { TrimSpace(c.bytes) :
      c \in { InnerOf(list)[k] : k \in { n \in 1..Len(InnerOf(list)) :
                                          InnerOf(list)[n].type = "Comment" } } }

\* C8: no comment is lost: every comment between the brackets of the list
\* before the pass stands in the list after the pass as often as before,
\* also a comment line between the last trailing comma and the closing
\* bracket.
C8_NoCommentLost ==
  passes >= 1 =>
    \A text \in CommentTexts(ListPart(prev)) :
      Occurrences(text, ConcatBytes(ListPart(tokens)))
        = Occurrences(text, ConcatBytes(ListPart(prev)))

KeysOf(elements) == [i \in 1..Len(elements) |-> elements[i].Key]

\* every element stands before the elements that follow it in the declared
\* order
InDeclaredOrder(elements) ==
  \A i, j \in 1..Len(elements) : i < j => DeclaredOrder(elements[i], elements[j])

\* C9: a list is rewritten only if the stable sort changes the sequence of
\* element keys position by position: for an empty list, a list of one
\* element and a list already in order the pass reports no modification,
\* returns the tokens it was given, and the stored tokens are not written.
C9_NoOpDetection ==
  passes >= 1 =>
    LET E == ElementsBefore IN
      /\ modified => KeysOf(SliceStable(E)) # KeysOf(E)
      /\ (Len(E) <= 1 \/ InDeclaredOrder(E)) =>
           /\ ~modified
           /\ sortListsInTokens(prev).tokens = prev
           /\ tokens = prev

\* a list of several elements, already in order, that the pass left alone
C9_Witness ==
  /\ passes = 1
  /\ Len(ElementsBefore) >= 2 /\ InDeclaredOrder(ElementsBefore)
  /\ ~modified /\ tokens = prev

\* the expression has the form toset([ ... ])
IsTosetCall(toks) ==
  /\ Len(toks) >= 5
  /\ toks[1] = Tok("Ident", TosetBytes)
  /\ toks[2] = TokOParen /\ toks[3] = TokOBrack
  /\ toks[Len(toks) - 1] = TokCBrack /\ toks[Len(toks)] = TokCParen

\* C10: for an expression toset([ ... ]) the pass yields toset, (, the list
\* sorted as the bare list would be, ), with the values in sorted order; if
\* the list needs no reordering the expression is left as it was.
C10_TosetPreserved ==
  (passes >= 1 /\ IsTosetCall(prev)) =>
    LET list == SubSeq(prev, 3, Len(prev) - 1)
        bare == sortListsInTokens(list)
    IN IF KeysOf(SliceStable(ElementsBefore)) # KeysOf(ElementsBefore)
       THEN /\ modified /\ bare.modified
            /\ tokens = <<Tok("Ident", TosetBytes), TokOParen>> \o bare.tokens \o <<TokCParen>>
            /\ StoredValues = ValuesOf(SortedElements)
       ELSE ~modified /\ tokens = prev

\* a toset call whose list the pass has reordered
C10_Witness ==
  /\ passes = 1 /\ IsTosetCall(prev)
  /\ modified /\ IsTosetCall(tokens) /\ tokens # prev

\* some of the tokens is a newline token
ContainsNewline(toks) == \E k \in 1..Len(toks) : toks[k].type = "Newline"

\* none of the tokens is a comment
CommentFree(toks) == \A k \in 1..Len(toks) : toks[k].type # "Comment"

\* the tokens end with a comma and a newline
EndsCommaNewline(toks) ==
  /\ Len(toks) >= 2
  /\ toks[Len(toks) - 1].type = "Comma"
  /\ toks[Len(toks)].type = "Newline"

\* C11: rebuilding a list without comments keeps its layout: if the inner
\* tokens held a newline the rebuilt list is multi-line and ends with a
\* comma and a newline before the closing bracket; if they held none the
\* rebuilt list holds no newline and no comma after its last element.
C11_LayoutPreserved ==
  (passes >= 1 /\ modified /\ CommentFree(prev)) =>
    LET orig == InnerOf(ListPart(prev))
        out == InnerOf(ListPart(tokens))
    IN IF ContainsNewline(orig)
       THEN ContainsNewline(out) /\ EndsCommaNewline(out)
       ELSE ~ContainsNewline(out) /\ out[Len(out)].type # "Comma"

\* the tokens without the newlines, tabs and comments they end with
RECURSIVE DropTrailingLayout(_)
DropTrailingLayout(toks) ==
  IF Len(toks) > 0 /\ toks[Len(toks)].type \in {"Newline", "Tabs", "Comment"}
  THEN DropTrailingLayout(SubSeq(toks, 1, Len(toks) - 1))
  ELSE toks

\* the tokens run over several lines
SpansLines(toks) == \E k \in 1..Len(toks) : toks[k].type \in {"Newline", "Comment"}

\* C12: every multi-line list that the pass rewrites ends with a comma after
\* the value of its last element, before any inline comment of that element,
\* whichever element comes last and whether or not it had a comma before.
C12_TrailingComma ==
  (passes >= 1 /\ modified /\ SpansLines(InnerOf(ListPart(tokens)))) =>
    LET body == DropTrailingLayout(InnerOf(ListPart(tokens)))
    IN Len(body) > 0 /\ body[Len(body)].type = "Comma"

\* ------------------------------------------------------------------------
\* Block order
\* ------------------------------------------------------------------------
\* the block types in their documented order
StandardOrder ==
  <<"terraform", "provider", "variable", "locals", "data", "module", "resource", "output">>

\* the place of a block type in the documented order; unknown types come last
Priority(type) ==
  IF \E k \in 1..Len(StandardOrder) : StandardOrder[k] = type
  THEN CHOOSE k \in 1..Len(StandardOrder) : StandardOrder[k] = type
  ELSE Len(StandardOrder) + 1

\* the labels that order a block among the blocks of its type
OrderingLabels(b) ==
  IF options.SortTypeName /\ b.name \in {"resource", "data"} THEN b.labels ELSE <<>>

\* label sequences of equal length in ascending order, first label first
LabelsAscending(l1, l2) ==
  \/ l1 = l2
  \/ \E k \in 1..Len(l1) :
       /\ SubSeq(l1, 1, k - 1) = SubSeq(l2, 1, k - 1)
       /\ BytesCompare(l1[k], l2[k]) = -1

\* b1 may stand before b2
BlocksInOrder(b1, b2) ==
  \/ Priority(b1.name) < Priority(b2.name)
  \/ /\ Priority(b1.name) = Priority(b2.name)
     /\ LabelsAscending(OrderingLabels(b1), OrderingLabels(b2))

\* the blocks tie on every key
BlocksTie(b1, b2) ==
  Priority(b1.name) = Priority(b2.name) /\ OrderingLabels(b1) = OrderingLabels(b2)

\* the blocks of the source file, with the lists of their bodies sorted
SourceBlocks == sortListValues(Blocks(file))

\* C13: With block sorting enabled, the blocks Sort returns are in the
\* documented order of their types, resource and data blocks (when
\* SortTypeName is set) by first label then second label, and the blocks that
\* tie on all of these stand in their source order.
C13_BlockOrder ==
  (isSorted /\ options.SortBlocks) =>
    LET out == Blocks(sorted)
    IN /\ \A i, j \in 1..Len(out) : i < j => BlocksInOrder(out[i], out[j])
       /\ \A b \in { out[k] : k \in 1..Len(out) } :
            SelectSeq(out, LAMBDA x : BlocksTie(x, b))
              = SelectSeq(SourceBlocks, LAMBDA x : BlocksTie(x, b))

\* blocks were moved, two different blocks tied, and two resource blocks were
\* ordered by their second label
C13_Witness ==
  /\ isSorted /\ options.SortBlocks /\ options.SortTypeName
  /\ Blocks(sorted) # SourceBlocks
  /\ \E i, j \in 1..Len(Blocks(sorted)) :
       /\ i < j
       /\ BlocksTie(Blocks(sorted)[i], Blocks(sorted)[j])
       /\ Blocks(sorted)[i] # Blocks(sorted)[j]
  /\ \E i, j \in 1..Len(Blocks(file)) :
       /\ i < j
       /\ Blocks(file)[i].name = "resource" /\ Blocks(file)[j].name = "resource"
       /\ Blocks(file)[i].labels[1] = Blocks(file)[j].labels[1]
       /\ BytesCompare(Blocks(file)[j].labels[2], Blocks(file)[i].labels[2]) = -1

\* C14: When SortOptions.SortBlocks is false, the blocks Sort returns stand in
\* their source order, also when the source is not in the documented order.
C14_BlocksKeptWhenDisabled ==
  (isSorted /\ ~options.SortBlocks) => Blocks(sorted) = SourceBlocks

\* ------------------------------------------------------------------------
\* Attributes and bodies
\* ------------------------------------------------------------------------
\* every attribute of a body and of its nested blocks at any depth, with the
\* block it stands in
RECURSIVE AllAttributes(_, _)
AllAttributes(body, owner) ==
  UNION { IF body[i].kind = "attr"
          THEN { [owner |-> owner, name |-> body[i].name, expr |-> body[i].expr] }
          ELSE AllAttributes(body[i].body, <<owner, body[i].name, body[i].labels>>)
          : i \in 1..Len(body) }

\* C15: When SortOptions.SortList is false, Sort modifies no list: every
\* attribute of the returned file holds the expression tokens of the source.
C15_ListsKeptWhenDisabled ==
  (isSorted /\ ~options.SortList) =>
    AllAttributes(sorted, <<>>) = AllAttributes(file, <<>>)

\* the expression holds a list
HasList(expr) == \E k \in 1..Len(expr) : expr[k].type = "OBrack"

\* the keys of a map or object expression, in their order
MapKeys(expr) ==
  LET at == { k \in 1..Len(expr) - 1 : expr[k].type = "Ident" /\ expr[k + 1].type = "Equal" }
  IN SelectSeq([k \in 1..Len(expr) |-> IF k \in at THEN expr[k].bytes ELSE <<>>],
               LAMBDA b : b # <<>>)

\* what Sort must leave alone in a body: the items in their order, the keys
\* of every map, and the tokens of every expression without a list
RECURSIVE Frame(_)
Frame(body) ==
  [i \in 1..Len(body) |->
     IF body[i].kind = "attr"
     THEN [name |-> body[i].name, keys |-> MapKeys(body[i].expr),
           expr |-> IF HasList(body[i].expr) THEN <<>> ELSE body[i].expr]
     ELSE [name |-> body[i].name, labels |-> body[i].labels, body |-> Frame(body[i].body)]]

\* the blocks of the source file in the order Sort gives them
MovedBlocks == SliceStableBlocks(Blocks(file), options)

\* C16: Within every block body, Sort keeps the attributes and nested blocks
\* in their order, keeps the keys of maps in their order, and leaves the
\* tokens of every attribute whose expression holds no list unchanged.
C16_BodiesKeepOrder ==
  isSorted =>
    /\ Len(Blocks(sorted)) = Len(MovedBlocks)
    /\ \A k \in 1..Len(MovedBlocks) :
         Frame(Blocks(sorted)[k].body) = Frame(MovedBlocks[k].body)

\* a body with a nested block before a map that holds a list, which was sorted
C16_Witness ==
  /\ isSorted
  /\ \E k \in 1..Len(Blocks(file)) :
       LET body == Blocks(file)[k].body
       IN /\ Len(body) = 2
          /\ body[1].kind = "block"
          /\ body[2].kind = "attr" /\ MapKeys(body[2].expr) # <<>> /\ HasList(body[2].expr)
          /\ Blocks(sorted)[k].body # body

\* ------------------------------------------------------------------------
\* The command: exit status and output
\* ------------------------------------------------------------------------
\* the options the command hands to Sort
CommandOptions == [SortBlocks |-> flags.sortBlocks, SortTypeName |-> flags.sortTypeName]

\* the bytes Sort gives for the bytes of a source that parses
SortedContent(content) ==
  { Bytes(Sort(content.body, CommandOptions, order)) :
      order \in AttributeOrders(Len(Attributes(content.body))) }

\* sorting would change the source
WouldChange(source) ==
  source.Content.ok /\ \E b \in SortedContent(source.Content) : b # source.Content

\* the command got as far as reading its inputs
InputsRead ==
  /\ \A k \in 1..Len(args) : args[k] \notin FlagLike
  /\ ~(args = <<>> /\ stdin.pipe /\ stdin.broken)

\* the sources that are files
IsFileSource(source) == source.Path # "<stdin>"

\* C17: With --dry-run and no processing errors the exit status is 1 if some
\* input source would be changed by sorting and 0 otherwise, and in dry-run
\* mode no file is written, whatever the other flags.
C17_DryRun ==
  flags.dryRun =>
    /\ writes = <<>>
    /\ \A k \in 1..Len(sources) :
         IsFileSource(sources[k]) => disk[sources[k].Path].content = sources[k].Content
    /\ (pc = "done" /\ InputsRead /\ ~hasErrors) =>
         exitCode = IF \E k \in 1..Len(sources) : WouldChange(sources[k]) THEN 1 ELSE 0

\* a dry run with --in-place over a file that would change and a later one
\* that would not
C17_Witness ==
  /\ pc = "done" /\ flags.dryRun /\ flags.inPlace /\ ~hasErrors
  /\ Len(sources) = 2
  /\ WouldChange(sources[1]) /\ ~WouldChange(sources[2])
  /\ exitCode = 1

\* a named file could not be examined or read, or standard input failed
ReadFailed ==
  \/ args = <<>> /\ stdin.pipe /\ stdin.broken
  \/ \E k \in 1..Len(args) : disk[args[k]].kind = "missing"
  \/ \E k \in 1..Len(args) : disk[args[k]].kind = "file" /\ ~disk[args[k]].readable

\* a source does not parse
ParseFailure == \E k \in 1..Len(sources) : ~sources[k].Content.ok

\* C18: If an input cannot be parsed or a file I/O error occurs reading an
\* input or writing an output, the exit status is 2 and every other source
\* has been processed.
C18_ErrorsExitTwo ==
  (pc = "done" /\ (\A k \in 1..Len(args) : args[k] \notin FlagLike)
     /\ (ParseFailure \/ ReadFailed \/ hasErrors)) =>
    exitCode = 2 /\ idx = Len(sources) + 1

\* C19: With --in-place a file is overwritten if and only if its sorted bytes
\* differ from its original bytes; a source read from standard input is
\* written to standard output and no file is written.
C19_InPlace ==
  (pc = "done" /\ flags.inPlace /\ ~flags.dryRun /\ InputsRead) =>
    \A k \in 1..Len(sources) :
      IF IsFileSource(sources[k])
      THEN /\ (\E w \in 1..Len(writes) : writes[w] = sources[k].Path)
                <=> (WouldChange(sources[k]) /\ disk[sources[k].Path].writable)
           /\ IF WouldChange(sources[k]) /\ disk[sources[k].Path].writable
              THEN disk[sources[k].Path].content \in SortedContent(sources[k].Content)
              ELSE disk[sources[k].Path].content = sources[k].Content
      ELSE /\ writes = <<>>
           /\ (sources[k].Content.ok /\ stdout.ok) =>
                (Len(stdout.written) = 1 /\ stdout.written[1] \in SortedContent(sources[k].Content))

\* in place over a file that was rewritten and a file that was left alone
C19_Witness ==
  /\ pc = "done" /\ flags.inPlace /\ ~flags.dryRun
  /\ Len(sources) = 2
  /\ writes = <<sources[1].Path>>
  /\ ~WouldChange(sources[2]) /\ sources[2].Content.ok
  /\ exitCode = 0

\* C20: In the default mode (no --dry-run, no --in-place) the exit status is
\* 1 when the sorted output differs from the input and 0 when the input was
\* already sorted.
C20_DefaultExit ==
  (pc = "done" /\ ~flags.dryRun /\ ~flags.inPlace /\ InputsRead /\ ~hasErrors
     /\ Len(sources) > 0) =>
    exitCode = IF \E k \in 1..Len(sources) : WouldChange(sources[k]) THEN 1 ELSE 0

\* ------------------------------------------------------------------------
\* Segmentation
\* ------------------------------------------------------------------------
\* the nesting depth after a token
DepthAfter(depth, t) ==
  depth + (IF t.type \in {"OBrack", "OBrace", "OParen"} THEN 1 ELSE 0)
        - (IF t.type \in {"CBrack", "CBrace", "CParen"} THEN 1 ELSE 0)

\* the depth after each token of toks
RECURSIVE Depths(_)
Depths(toks) ==
  IF Len(toks) = 0 THEN <<>>
  ELSE LET before == Depths(SubSeq(toks, 1, Len(toks) - 1))
       IN Append(before,
                 DepthAfter(IF Len(before) = 0 THEN 0 ELSE before[Len(before)],
                            toks[Len(toks)]))

\* the places of the commas at depth zero
DepthZeroCommas(toks) ==
  { k \in 1..Len(toks) : toks[k].type = "Comma" /\ Depths(toks)[k] = 0 }

\* the slices of toks between the commas at depth zero
DepthZeroSlices(toks) ==
  LET cuts == DepthZeroCommas(toks)
      starts == {1} \cup { k + 1 : k \in cuts }
      EndOf(a) == IF \E k \in cuts : k >= a
                  THEN (CHOOSE k \in cuts : k >= a /\ \A m \in cuts : m >= a => k <= m) - 1
                  ELSE Len(toks)
  IN { SubSeq(toks, a, EndOf(a)) : a \in starts }

\* the tokens of a slice that are no layout and no comment
ContentOf(toks) == SelectSeq(toks, LAMBDA t : t.type \notin {"Newline", "Tabs", "Comment"})

\* brackets, braces and parentheses are balanced and never close too early
WellNested(toks) ==
  /\ \A k \in 1..Len(toks) : Depths(toks)[k] >= 0
  /\ (Len(toks) > 0 => Depths(toks)[Len(toks)] = 0)

\* the inner tokens of the source list that the segmenter is given
SegmentedTokens == TokensToProcess(InnerOf(ListPart(Source)))

\* C21: The segmenter splits the inner tokens only at commas of nesting depth
\* zero: every element is well nested, and the elements are, one for one, the
\* non-empty slices between the depth-zero commas.
C21_SplitAtDepthZero ==
  LET elements == extractSimpleListElements(SegmentedTokens)
      contents == { ContentOf(sl) : sl \in DepthZeroSlices(SegmentedTokens) } \ {<<>>}
  IN /\ \A k \in 1..Len(elements) : WellNested(elements[k].Tokens)
     /\ { ContentOf(ValueTokens(elements[k])) : k \in 1..Len(elements) } = contents
     /\ Len(elements) =
          Cardinality({ a \in {1} \cup { k + 1 : k \in DepthZeroCommas(SegmentedTokens) } :
            \E m \in a..Len(SegmentedTokens) :
              /\ \A c \in DepthZeroCommas(SegmentedTokens) : ~(a <= c /\ c <= m)
              /\ SegmentedTokens[m].type \notin {"Newline", "Tabs", "Comment"} })

\* a pass over a list of two elements or more, one of them with a comma inside
C21_Witness ==
  /\ passes >= 1
  /\ Len(extractSimpleListElements(SegmentedTokens)) >= 2
  /\ \E k \in 1..Len(SegmentedTokens) :
       SegmentedTokens[k].type = "Comma" /\ Depths(SegmentedTokens)[k] > 0

\* ------------------------------------------------------------------------
\* Numeric elements
\* ------------------------------------------------------------------------
\* the value of the element is one number literal that parses
SingleNumberLiteral(e) ==
  /\ Len(ValueTokens(e)) = 1
  /\ ValueTokens(e)[1].type = "NumberLit"
  /\ JSONNumberOK(ValueTokens(e)[1].bytes)

\* C22: An element is treated as numeric if and only if its value tokens are
\* exactly one number literal that parses; an element of several tokens that
\* begins with a number literal is not numeric.
C22_NumericIffSingleLiteral ==
  passes >= 1 =>
    \A k \in 1..Len(ElementsBefore) :
      ElementsBefore[k].IsNumber <=> SingleNumberLiteral(ElementsBefore[k])

\* ------------------------------------------------------------------------
\* Keys and comments
\* ------------------------------------------------------------------------
\* the source expression without its inline comments
WithoutInlineComments ==
  Render([input EXCEPT
            !.elems = [k \in 1..Len(input.elems) |-> [input.elems[k] EXCEPT !.inline = <<>>]]])

\* the element values of a list in the order the sort gives them
SortedValues(list) == ValuesOf(sortListElements(Segmented(list)).elements)

\* C23: The sort key excludes comments: a list and the same list without its
\* inline comments are sorted into the same order of element values.
C23_KeyExcludesComments ==
  passes >= 1 =>
    SortedValues(ListPart(Source)) = SortedValues(ListPart(WithoutInlineComments))

\* ------------------------------------------------------------------------
\* Lists with element comments
\* ------------------------------------------------------------------------
\* an element of the source list carries a comment
CarriesComment(e) == e.lead # <<>> \/ e.inline # <<>>

\* somewhere in toks the value stands, its separator comma after it and the
\* comment directly after the comma
CommaThenComment(toks, value, comment) ==
  \E p \in 1..Len(toks) :
    /\ toks[p] = comment
    /\ p - 1 - Len(value) >= 1
    /\ toks[p - 1].type = "Comma"
    /\ SubSeq(toks, p - 1 - Len(value), p - 2) = value

\* the list ends with a newline before its closing bracket
NewlineBeforeClose(list) ==
  /\ Len(list) >= 3
  /\ \/ list[Len(list) - 1].type = "Newline"
     \/ /\ list[Len(list) - 1].type = "Comment"
        /\ HasSuffix(list[Len(list) - 1].bytes, <<10>>)

\* the value stands last in the list, without a separator comma, and the
\* comment directly follows it on the same line
LastThenComment(list, value, comment) ==
  /\ Len(list) - 2 - Len(value) >= 1
  /\ list[Len(list) - 1] = comment
  /\ SubSeq(list, Len(list) - 1 - Len(value), Len(list) - 2) = value

RECURSIVE SplitTopLevel(_, _, _)
SplitTopLevel(toks, depth, current) ==
  IF Len(toks) = 0 THEN <<current>>
  ELSE IF toks[1].type = "Comma" /\ DepthAfter(depth, toks[1]) = 0
       THEN <<current>> \o SplitTopLevel(Tail(toks), depth, <<>>)
       ELSE SplitTopLevel(Tail(toks), DepthAfter(depth, toks[1]), Append(current, toks[1]))

\* the values of the top-level elements of a bracketed list, in order
ElementContents(list) ==
  LET slices == SplitTopLevel(InnerOf(list), 0, <<>>)
  IN SelectSeq([i \in 1..Len(slices) |-> ContentOf(slices[i])], LAMBDA c : c # <<>>)

\* two sequences hold the same members, each as often
SameBag(s, t) ==
  /\ Len(s) = Len(t)
  /\ \A i \in 1..Len(s) :
       Cardinality({ k \in 1..Len(s) : s[k] = s[i] })
         = Cardinality({ k \in 1..Len(t) : t[k] = s[i] })

\* a bracket pair that is a list literal: the first bracket is closed by the
\* last one, and the brackets do not hold a for expression
IsListLiteral(list) ==
  /\ Len(list) >= 2
  /\ list[1].type = "OBrack"
  /\ MatchBracket(list, 2, 1) = [j |-> Len(list) + 1, level |-> 0]
  /\ ~(Len(list) >= 3 /\ list[2] = Tok("Ident", <<102, 111, 114>>))

\* after is before with its top-level elements in some order, each of them
\* well nested
PermutedList(before, after) ==
  /\ IsListLiteral(before)
  /\ IsListLiteral(after)
  /\ SameBag(ElementContents(before), ElementContents(after))
  /\ \A i \in 1..Len(ElementContents(after)) : WellNested(ElementContents(after)[i])

\* after is before, but for list literals whose elements are permuted
RECURSIVE Conforms(_, _)
Conforms(before, after) ==
  IF Len(before) = 0 \/ Len(after) = 0 THEN Len(before) = Len(after)
  ELSE IF before[1].type # "OBrack"
       THEN before[1] = after[1] /\ Conforms(Tail(before), Tail(after))
       ELSE LET mb == MatchBracket(before, 2, 1)
                ma == MatchBracket(after, 2, 1)
            IN /\ mb.level = 0
               /\ ma.level = 0
               /\ after[1].type = "OBrack"
               /\ \/ SubSeq(before, 1, mb.j - 1) = SubSeq(after, 1, ma.j - 1)
                  \/ PermutedList(SubSeq(before, 1, mb.j - 1), SubSeq(after, 1, ma.j - 1))
               /\ Conforms(SubSeq(before, mb.j, Len(before)), SubSeq(after, ma.j, Len(after)))

\* C25: A pass never corrupts an expression: the tokens after the pass are
\* the tokens before it, but for list literals (a bracket pair whose opening
\* bracket is matched by its closing bracket) whose top-level elements, each
\* well nested, stand in another order; what is no list literal is left as
\* it was.
C25_NeverCorrupts == passes >= 1 => Conforms(prev, tokens)

\* ------------------------------------------------------------------------
\* What segmentation keeps
\* ------------------------------------------------------------------------
\* the leading comments and the tokens of the elements, one after another
RECURSIVE Flatten(_)
Flatten(elements) ==
  IF Len(elements) = 0 THEN <<>>
  ELSE elements[1].LeadingComments \o elements[1].Tokens \o Flatten(Tail(elements))

\* the tokens that are no separator: no comma, no newline, no whitespace
NoSeparators(toks) ==
  SelectSeq(toks, LAMBDA t : t.type \notin {"Comma", "Newline", "Tabs"})

\* C26: Segmentation is lossless: the leading comments and the tokens of the
\* extracted elements, in source order, are the inner tokens of the list but
\* for the separators between the elements; no comment and no value token
\* between the brackets is discarded.
C26_SegmentationLossless ==
  NoSeparators(Flatten(extractSimpleListElements(SegmentedTokens)))
    = NoSeparators(SegmentedTokens)

\* ------------------------------------------------------------------------
\* The walk over a file
\* ------------------------------------------------------------------------
\* the attribute after one run of the pipeline over its expression alone
SortedOnce(a) ==
  [a EXCEPT !.expr = IF sortListsInTokens(a.expr).modified
                     THEN sortListsInTokens(a.expr).tokens
                     ELSE a.expr]

\* the attributes that stand in a block inside a top-level block
NestedAttributes(body) ==
  { a \in AllAttributes(body, <<>>) : a.owner # <<>> /\ a.owner[1] # <<>> }

WrittenValues == [k \in 1..Len(input.elems) |-> ContentOf(input.elems[k].value)]

\* C28: Sorting a list is a permutation of its elements: the values between
\* the top-level commas of the rebuilt list are the values of the elements of
\* the source list, each as often as in the source; none is dropped,
\* duplicated, merged with another or split in two.
C28_Permutation ==
  (passes = 1 /\ modified) =>
    SameBag(WrittenValues, ElementContents(ListPart(tokens)))

\* a rewritten list of three elements, two of them the same value, one of
\* them with a comma inside
C28_Witness ==
  /\ passes = 1
  /\ modified
  /\ Len(input.elems) = 3
  /\ \E i, j \in 1..3 : i # j /\ input.elems[i].value = input.elems[j].value
  /\ \E i \in 1..3 : \E k \in 1..Len(input.elems[i].value) :
       input.elems[i].value[k].type = "Comma"

\* ------------------------------------------------------------------------
\* Runs of Sort over the same file
\* ------------------------------------------------------------------------
\* the names of the attributes of a body, in their order
AttributeNames(body) == [i \in 1..Len(Attributes(body)) |-> Attributes(body)[i].name]

\* C29: Sort is deterministic and keeps the top-level attributes in place:
\* every run of Sort over the same file with the same options returns the
\* file this run returned, and the top-level attributes of the result stand
\* in the order they have in the source.
C29_Deterministic ==
  isSorted =>
    /\ \A order \in AttributeOrders(Len(Attributes(file))) :
         Sort(file, options, order) = sorted
    /\ AttributeNames(sorted) = AttributeNames(file)

\* ------------------------------------------------------------------------
\* The scan of an expression that is no list and no toset call
\* ------------------------------------------------------------------------
\* the expression reaches the scan: it is no bracketed list and no toset call
ReachesScan(toks) ==
  /\ Len(toks) > 0
  /\ ~(toks[1].type = "OBrack" /\ toks[Len(toks)].type = "CBrack")
  /\ ~IsTosetCall(toks)

\* the place of the token that closes the bracket at place 1
PairEnd(toks) ==
  CHOOSE k \in 1..Len(toks) :
    /\ Depths(toks)[k] = 0
    /\ \A m \in 1..(k - 1) : Depths(toks)[m] > 0

\* toks with each outermost bracket pair, from left to right, replaced by
\* what the list sorter gives for that pair alone
RECURSIVE EachOutermostPair(_)
EachOutermostPair(toks) ==
  IF Len(toks) = 0 THEN <<>>
  ELSE IF toks[1].type # "OBrack" THEN <<toks[1]>> \o EachOutermostPair(Tail(toks))
  ELSE trySortSimpleListTokens(SubSeq(toks, 1, PairEnd(toks))).tokens
         \o EachOutermostPair(SubSeq(toks, PairEnd(toks) + 1, Len(toks)))

\* C30: For an expression that is neither a bracketed list nor a toset call,
\* the scan offers each outermost bracket pair to the list sorter once, from
\* left to right, and ends: the result is the expression with each outermost
\* pair replaced by what the list sorter gives for that pair alone, the
\* tokens outside the pairs as they were and in their places, and a pair that
\* was not rewritten left whole, the lists inside it included.
C30_FallbackScan ==
  (passes = 1 /\ ReachesScan(prev)) =>
    /\ tokens = EachOutermostPair(prev)
    /\ modified <=> (tokens # prev)

\* a call whose first list was rewritten to another length and whose second
\* list, of one nested list out of order, was left whole
C30_Witness ==
  /\ passes = 1
  /\ modified
  /\ \E l1 \in ExprLists :
       /\ prev = ConcatCall(l1, RenderList(<<Plain(ValNested)>>, LaySingle))
       /\ Len(trySortSimpleListTokens(l1).tokens) # Len(l1)
       /\ SubSeq(tokens, Len(tokens) - 7, Len(tokens) - 1)
            = RenderList(<<Plain(ValNested)>>, LaySingle)

====
